---- MODULE Spec2Model ----
(***************************************************************************)
(* A model of src/core/dbus-unit.c: the D-Bus control plane of one unit.   *)
(* One Unit object u is modelled together with the parts of its Manager    *)
(* that the bus layer touches.  Every handler of the C file is an operator *)
(* over that state and every action applies one handler as a whole.        *)
(*                                                                         *)
(* Specifications:                                                         *)
(*   SpecSig     change / removed signal emitter                           *)
(*   SpecAttach  AttachProcesses                                           *)
(*   Spec        bus methods that ask the policy backend for authorization *)
(*   SpecProc    GetProcesses and the ControlGroup property                *)
(*   SpecProps   bus_unit_set_properties (the two-pass property engine)    *)
(***************************************************************************)
EXTENDS Integers, Sequences, FiniteSets, TLC

VARIABLES
    u,          \* the Unit object
    units,      \* m->units: names of the other units the manager knows
    signals,    \* signals dispatched to the bus, in order
    jobs,       \* jobs submitted with manager_add_job, in order
    kills,      \* unit_kill calls, in order
    attached,   \* unit_attach_pids_to_cgroup calls, in order
    call,       \* the bus method call being processed (message and outcome)
    msg,        \* the property array of a SetProperties message
    pre,        \* history: unit and manager as they were when the handler began
    dry         \* history: unit and manager at the end of pass 1

vars == <<u, units, signals, jobs, kills, attached, call, msg, pre, dry>>

(***************************************************************************)
(* Bounds of the model.                                                    *)
(***************************************************************************)
MaxSignals == 5      \* dispatch records kept in the signal log
MaxDeliveries == 2   \* deliveries of one message while authorization is pending
MaxPids == 2         \* length of the PID array of AttachProcesses
MaxBatch == 2        \* entries in one SetProperties array

(***************************************************************************)
(* The Unit object (the fields of Unit this file reads or writes).         *)
(***************************************************************************)
NoId == "(null)"
UnitId == "u.service"
USEC_INFINITY == -1
NoTrack == [allocated |-> FALSE, names |-> <<>>]
NoPath == <<"(null)">>

FreshUnit ==
    [ id                      |-> UnitId,
      type                    |-> "service",
      load_state              |-> "stub",
      transient               |-> TRUE,
      active_state            |-> "inactive",
      can_reload              |-> FALSE,
      refuse_manual_start     |-> FALSE,
      refuse_manual_stop      |-> FALSE,
      description             |-> <<>>,
      documentation           |-> <<>>,
      conditions              |-> <<>>,
      asserts                 |-> <<>>,
      dependencies            |-> {},
      requires_mounts_for     |-> {},
      slice                   |-> <<>>,
      job_timeout             |-> USEC_INFINITY,
      job_running_timeout     |-> USEC_INFINITY,
      job_running_timeout_set |-> FALSE,
      bus_track_add           |-> FALSE,
      sub_property            |-> 0,
      sub_commits             |-> 0,
      settings                |-> {},
      in_dbus_queue           |-> FALSE,
      sent_dbus_new_signal    |-> FALSE,
      bus_track               |-> NoTrack,
      in_gc_queue             |-> FALSE,
      cgroup_delegate         |-> FALSE,
      ref_uid                 |-> 0,
      cgroup_path             |-> NoPath,
      main_pid                |-> 0,
      control_pid             |-> 0,
      failed                  |-> FALSE ]

NoCall == [method |-> "none", status |-> "none"]

\* Then(x, F) is F(x) with x evaluated once, before F is applied: the value of
\* one step of a handler handed to the steps after it.
Then(x, F(_)) == CHOOSE y \in {F(v) : v \in {x}} : TRUE

(***************************************************************************)
(* Change signal emitter.                                                  *)
(*                                                                         *)
(* The signal log holds one record per signal a send function tried to put *)
(* on the bus: sent is FALSE when that step returned an error (the caller  *)
(* only logs it).  o is what the bus does: "ok", "fail1" (the first step   *)
(* of the send function fails) or "fail2" (its second step fails).         *)
(***************************************************************************)
BusOutcomes == {"ok", "fail1", "fail2"}

unit_dbus_interface_from_type(t) ==
    IF t = "service" THEN "org.freedesktop.systemd1.Service"
    ELSE "org.freedesktop.systemd1.Slice"

Sig(sig, iface, sent) == [sig |-> sig, iface |-> iface, sent |-> sent]

send_new_signal(un, o) ==
    <<Sig("UnitNew", "org.freedesktop.systemd1.Manager", o = "ok")>>

send_changed_signal_generic_first(un, o) ==
    IF o = "fail1"
    THEN <<Sig("PropertiesChanged", "org.freedesktop.systemd1.Unit", FALSE)>>
    ELSE <<Sig("PropertiesChanged", "org.freedesktop.systemd1.Unit", TRUE),
           Sig("PropertiesChanged", unit_dbus_interface_from_type(un.type), o = "ok")>>

send_changed_signal(un, o) ==
    IF o = "fail1"
    THEN <<Sig("PropertiesChanged", unit_dbus_interface_from_type(un.type), FALSE)>>
    ELSE <<Sig("PropertiesChanged", unit_dbus_interface_from_type(un.type), TRUE),
           Sig("PropertiesChanged", "org.freedesktop.systemd1.Unit", o = "ok")>>

send_removed_signal(un, o) ==
    <<Sig("UnitRemoved", "org.freedesktop.systemd1.Manager", o = "ok")>>

\* The result of a signal function: the unit and the log after it.
SigState(un, log) == [u |-> un, signals |-> log]

bus_unit_send_change_signal_flag_first(un, log, o) ==
    LET u1 == [un EXCEPT !.in_dbus_queue = FALSE, !.sent_dbus_new_signal = TRUE]
    IN  IF un.id = NoId
        THEN SigState(u1, log)
        ELSE SigState(u1, log \o (IF un.sent_dbus_new_signal
                                  THEN send_changed_signal(un, o)
                                  ELSE send_new_signal(un, o)))

\* The creation notice is sent by every call.
bus_unit_send_change_signal_always_new(un, log, o) ==
    LET u1 == [un EXCEPT !.in_dbus_queue = FALSE]
    IN  IF u1.id = NoId
        THEN SigState(u1, log)
        ELSE SigState([u1 EXCEPT !.sent_dbus_new_signal = TRUE],
                      log \o send_new_signal(u1, o))

bus_unit_send_change_signal(un, log, o) ==
    LET u1 == [un EXCEPT !.in_dbus_queue = FALSE]
    IN  IF u1.id = NoId
        THEN SigState(u1, log)
        ELSE SigState([u1 EXCEPT !.sent_dbus_new_signal = TRUE],
                      log \o (IF u1.sent_dbus_new_signal
                              THEN send_changed_signal(u1, o)
                              ELSE send_new_signal(u1, o)))

bus_unit_send_removed_signal_no_change(un, log, o1, o2) ==
    IF un.id = NoId
    THEN SigState(un, log)
    ELSE SigState(un, log \o send_removed_signal(un, o2))

bus_unit_send_removed_signal(un, log, o1, o2) ==
    LET s1 == IF ~un.sent_dbus_new_signal \/ un.in_dbus_queue
              THEN bus_unit_send_change_signal(un, log, o1)
              ELSE SigState(un, log)
    IN  IF s1.u.id = NoId
        THEN s1
        ELSE SigState(s1.u, s1.signals \o send_removed_signal(s1.u, o2))

(***************************************************************************)
(* SpecSig: any sequence of send-change and send-removed calls on a unit,  *)
(* interleaved with the manager queueing the unit for a change signal and  *)
(* with the unit losing its primary name (merge_names() of unit_merge()).  *)
(***************************************************************************)
\* History kept for the properties: the unit and manager before the handler.
Snapshot == [u |-> u, units |-> units]

Op(name) == [method |-> name, status |-> "done"]

unit_add_to_dbus_queue(un) ==
    IF un.load_state = "stub" \/ un.in_dbus_queue
    THEN un
    ELSE [un EXCEPT !.in_dbus_queue = TRUE]

merge_names(un) == [un EXCEPT !.id = NoId]

SigInit ==
    /\ \E id \in {UnitId, NoId} :
          u = [FreshUnit EXCEPT !.id = id, !.load_state = "loaded", !.transient = FALSE]
    /\ units = {}
    /\ signals = <<>>
    /\ jobs = <<>>
    /\ kills = <<>>
    /\ attached = <<>>
    /\ call = NoCall
    /\ msg = <<>>
    /\ pre = Snapshot
    /\ dry = Snapshot

AddToDbusQueue ==
    /\ ~u.in_dbus_queue
    /\ u' = unit_add_to_dbus_queue(u)
    /\ call' = Op("unit_add_to_dbus_queue")
    /\ pre' = Snapshot
    /\ UNCHANGED <<units, signals, jobs, kills, attached, msg, dry>>

MergeAway ==
    /\ u.id # NoId
    /\ u' = merge_names(u)
    /\ call' = Op("merge_names")
    /\ pre' = Snapshot
    /\ UNCHANGED <<units, signals, jobs, kills, attached, msg, dry>>

SendChange ==
    /\ Len(signals) < MaxSignals
    /\ \E o \in BusOutcomes :
          LET s == bus_unit_send_change_signal(u, signals, o)
          IN  /\ u' = s.u
              /\ signals' = s.signals
    /\ call' = Op("send_change")
    /\ pre' = Snapshot
    /\ UNCHANGED <<units, jobs, kills, attached, msg, dry>>

SendRemoved ==
    /\ Len(signals) < MaxSignals
    /\ \E o1 \in BusOutcomes, o2 \in {"ok", "fail1"} :
          LET s == bus_unit_send_removed_signal(u, signals, o1, o2)
          IN  /\ u' = s.u
              /\ signals' = s.signals
    /\ call' = Op("send_removed")
    /\ pre' = Snapshot
    /\ UNCHANGED <<units, jobs, kills, attached, msg, dry>>

SigNext == AddToDbusQueue \/ MergeAway \/ SendChange \/ SendRemoved

SpecSig == SigInit /\ [][SigNext]_vars

IsNotification(e) == e.sig \in {"UnitNew", "PropertiesChanged"}
IsGenericChanged(e) ==
    e.sig = "PropertiesChanged" /\ e.iface = "org.freedesktop.systemd1.Unit"
IsSubtypeChanged(e) ==
    e.sig = "PropertiesChanged" /\ e.iface # "org.freedesktop.systemd1.Unit"

\* C5 as stated: every UnitRemoved signal that reached the bus comes after a
\* notification (UnitNew or properties-changed) that reached the bus.
C5_RemovedAfterEmittedNotification ==
    \A i \in DOMAIN signals :
        (signals[i].sig = "UnitRemoved" /\ signals[i].sent)
            => \E j \in 1..(i - 1) : IsNotification(signals[j]) /\ signals[j].sent

\* C5 (amended): every UnitRemoved signal comes after a send-change call that
\* dispatched a notification (UnitNew or properties-changed) to the bus, whether
\* or not that dispatch succeeded; and a send-removed call on a unit that never
\* had one dispatched, or that is still in the dispatch queue, dispatches one
\* immediately before its UnitRemoved signal.
C5_RemovedAfterDispatch ==
    /\ \A i \in DOMAIN signals :
          signals[i].sig = "UnitRemoved"
              => \E j \in 1..(i - 1) : IsNotification(signals[j])
    /\ (/\ call.method = "send_removed"
        /\ pre.u.id # NoId
        /\ (~pre.u.sent_dbus_new_signal \/ pre.u.in_dbus_queue))
           => /\ Len(signals) >= 2
              /\ signals[Len(signals)].sig = "UnitRemoved"
              /\ \E j \in 1..(Len(signals) - 1) :
                    /\ j > Len(signals) - 3
                    /\ IsNotification(signals[j])
                    /\ \A k \in (j + 1)..(Len(signals) - 1) : IsNotification(signals[k])

\* C5 witness: a send-removed call on a unit with an identity that had never
\* dispatched a notification put UnitNew and then UnitRemoved on the bus.
C5_Witness ==
    /\ call.method = "send_removed"
    /\ pre.u.id # NoId
    /\ ~pre.u.sent_dbus_new_signal
    /\ Len(signals) = 2
    /\ signals[1].sig = "UnitNew" /\ signals[1].sent
    /\ signals[2].sig = "UnitRemoved" /\ signals[2].sent

\* C6: in the signal log every generic (Unit interface) properties-changed
\* signal directly follows a subtype-specific properties-changed signal that was
\* emitted successfully; so the subtype signal always comes first and the
\* generic one is never emitted after the subtype one failed.
C6_SubtypeBeforeGeneric ==
    \A i \in DOMAIN signals :
        /\ IsGenericChanged(signals[i])
              => /\ i > 1
                 /\ IsSubtypeChanged(signals[i - 1])
                 /\ signals[i - 1].sent
        /\ (IsSubtypeChanged(signals[i]) /\ ~signals[i].sent /\ i < Len(signals))
              => ~IsGenericChanged(signals[i + 1])

\* C6 witness: a changed notification whose subtype signal failed (nothing after
\* it) and a later one that emitted both signals.
C6_Witness ==
    \E i \in DOMAIN signals :
        /\ IsSubtypeChanged(signals[i]) /\ ~signals[i].sent
        /\ i + 2 <= Len(signals)
        /\ IsSubtypeChanged(signals[i + 1]) /\ signals[i + 1].sent
        /\ IsGenericChanged(signals[i + 2]) /\ signals[i + 2].sent

\* C7: a send-change or send-removed call on a unit whose primary name is unset
\* adds nothing to the signal log and leaves the sent-creation-notice flag as
\* it was; the name, once unset, stays unset.
C7_NoSignalWithoutId ==
    [][u.id = NoId
          => /\ signals' = signals
             /\ u'.sent_dbus_new_signal = u.sent_dbus_new_signal
             /\ u'.id = NoId]_vars

\* C7 witness: send-removed ran on a unit without a name that was still in the
\* dispatch queue and had never sent a creation notice.
C7_Witness ==
    /\ call.method = "send_removed"
    /\ pre.u.id = NoId
    /\ pre.u.in_dbus_queue
    /\ ~pre.u.sent_dbus_new_signal
    /\ ~u.in_dbus_queue

\* C35: the log holds at most one UnitNew and no properties-changed signal
\* before it; a step that puts UnitNew on the bus finds the
\* sent-creation-notice flag clear and sets it, a step that puts
\* properties-changed signals there finds it set; a send-change call on a unit
\* with a name dispatches UnitNew when the flag is clear and properties-changed
\* signals, never UnitNew, when it is set (whether or not the bus takes them);
\* and the flag, once set, stays set.
C35_UnitNewOnceAndFirst ==
    /\ [](\A i \in DOMAIN signals :
             signals[i].sig = "UnitNew"
                => \A j \in DOMAIN signals :
                      /\ (j # i => signals[j].sig # "UnitNew")
                      /\ (j < i => signals[j].sig # "PropertiesChanged"))
    /\ [][ /\ u.sent_dbus_new_signal => u'.sent_dbus_new_signal
           /\ \A i \in (Len(signals) + 1)..Len(signals') :
                 /\ signals'[i].sig = "UnitNew"
                       => ~u.sent_dbus_new_signal /\ u'.sent_dbus_new_signal
                 /\ signals'[i].sig = "PropertiesChanged" => u.sent_dbus_new_signal
           /\ (call'.method = "send_change" /\ u.id # NoId)
                 => /\ Len(signals') > Len(signals)
                    /\ signals'[Len(signals) + 1].sig =
                          IF u.sent_dbus_new_signal THEN "PropertiesChanged" ELSE "UnitNew"
                    /\ u'.sent_dbus_new_signal ]_vars

\* C35 witness: three send-change calls put UnitNew and then twice the two
\* properties-changed signals on the bus.
C35_Witness ==
    /\ call.method = "send_change"
    /\ u.sent_dbus_new_signal
    /\ Len(signals) = 5
    /\ signals[1].sig = "UnitNew"
    /\ \A i \in 2..5 : signals[i].sig = "PropertiesChanged" /\ signals[i].sent

(***************************************************************************)
(* AttachProcesses.                                                        *)
(*                                                                         *)
(* A path is the sequence of its separators and components.  The process   *)
(* table is fixed: each PID with the uid that owns it.  The message m      *)
(* holds what the handler reads: the sender's credentials, the path, the   *)
(* PID array, and what the environment answers (getuid(), processes whose  *)
(* uid cannot be read, the resource controller's result).                  *)
(***************************************************************************)
Paths ==
    { <<>>,
      <<"/", "a">>,
      <<"/", "a", "/", "b">>,
      <<"a", "/", "b">>,
      <<"/", "a", "/", "..", "/", "b">>,
      <<"/", "a", "/", "/", "b">>,
      <<"/", "a", "/", ".">> }

path_is_absolute(p) == Len(p) > 0 /\ p[1] = "/"

path_is_normalized(p) ==
    /\ Len(p) > 0
    /\ \A i \in DOMAIN p : p[i] \notin {".", ".."}
    /\ \A i \in 1..(Len(p) - 1) : ~(p[i] = "/" /\ p[i + 1] = "/")

Uids == {0, 1000, 1001}
ProcessTable == [pid \in {1, 10, 11, 12} |->
                    CASE pid = 1 -> 0 [] pid = 10 -> 1000 [] pid = 11 -> 1001 [] pid = 12 -> 0]
UPids == {0, 1, 10, 11}
Senders ==
    { [uid |-> 0,    pid |-> 12, creds |-> TRUE],
      [uid |-> 1000, pid |-> 10, creds |-> TRUE],
      [uid |-> 1001, pid |-> 11, creds |-> TRUE],
      [uid |-> 1000, pid |-> 10, creds |-> FALSE] }
ManagerUids == {0, 1000}

RECURSIVE SeqsUpTo(_, _)
SeqsUpTo(S, n) ==
    IF n = 0 THEN {<<>>}
    ELSE LET shorter == SeqsUpTo(S, n - 1)
         IN  shorter \cup {Append(q, x) : q \in {t \in shorter : Len(t) = n - 1}, x \in S}

UNIT_IS_INACTIVE_OR_FAILED(state) == state \in {"inactive", "failed"}
unit_cgroup_delegate(un) == un.cgroup_delegate
unit_active_state(un) == un.active_state

\* PID 1 cannot be moved; a PID of 0 or below, the manager itself and kernel
\* threads are refused likewise.
unit_pid_attachable(pid) == pid > 1

get_process_uid(pid) == ProcessTable[pid]

Ok(r) == [r |-> r, err |-> "", pid |-> 0]
Error(err) == [r |-> -1, err |-> err, pid |-> 0]
ErrorPid(err, pid) == [r |-> -1, err |-> err, pid |-> pid]

\* Lines 1138-1151: the path, delegation and active-state checks.
attach_check_unit_active_only(un, m) ==
    IF m.path # <<>> /\ ~path_is_absolute(m.path) THEN Error("InvalidArgs")
    ELSE IF m.path # <<>> /\ ~path_is_normalized(m.path) THEN Error("InvalidArgs")
    ELSE IF ~unit_cgroup_delegate(un) THEN Error("InvalidArgs")
    ELSE IF unit_active_state(un) = "inactive" THEN Error("InvalidArgs")
    ELSE Ok(0)

attach_check_unit(un, m) ==
    IF m.path # <<>> /\ ~path_is_absolute(m.path) THEN Error("InvalidArgs")
    ELSE IF m.path # <<>> /\ ~path_is_normalized(m.path) THEN Error("InvalidArgs")
    ELSE IF ~unit_cgroup_delegate(un) THEN Error("InvalidArgs")
    ELSE IF UNIT_IS_INACTIVE_OR_FAILED(unit_active_state(un)) THEN Error("InvalidArgs")
    ELSE Ok(0)

\* Lines 1182-1203: the checks one PID has to pass.
attach_check_pid(un, m, pid) ==
    IF ~unit_pid_attachable(pid) THEN ErrorPid("NotAttachable", pid)
    ELSE IF m.sender.uid # 0 /\ m.sender.uid # m.getuid
    THEN IF pid \in m.gone THEN ErrorPid("Errno", pid)
         ELSE IF get_process_uid(pid) # m.sender.uid THEN ErrorPid("AccessDenied", pid)
         ELSE IF get_process_uid(pid) # un.ref_uid THEN ErrorPid("AccessDenied", pid)
         ELSE Ok(0)
    ELSE Ok(0)

\* Lines 1160-1214: the loop over the PID array; pids is the set built so far.
RECURSIVE attach_collect_pids_skip_bad(_, _, _, _)
attach_collect_pids_skip_bad(un, m, i, pids) ==
    IF i > Len(m.upids) THEN [res |-> Ok(0), pids |-> pids]
    ELSE LET pid == IF m.upids[i] = 0 THEN m.sender.pid ELSE m.upids[i]
         IN  IF pid \in pids \/ attach_check_pid(un, m, pid).r < 0
             THEN attach_collect_pids_skip_bad(un, m, i + 1, pids)
             ELSE attach_collect_pids_skip_bad(un, m, i + 1, pids \cup {pid})

\* An entry 0 of the array is passed over instead of naming the sender.
RECURSIVE attach_collect_pids_skip_zero(_, _, _, _)
attach_collect_pids_skip_zero(un, m, i, pids) ==
    IF i > Len(m.upids) THEN [res |-> Ok(0), pids |-> pids]
    ELSE IF m.upids[i] = 0 THEN attach_collect_pids_skip_zero(un, m, i + 1, pids)
    ELSE Then(attach_check_pid(un, m, m.upids[i]), LAMBDA chk :
              IF m.upids[i] \in pids THEN attach_collect_pids_skip_zero(un, m, i + 1, pids)
              ELSE IF chk.r < 0 THEN [res |-> chk, pids |-> pids]
              ELSE attach_collect_pids_skip_zero(un, m, i + 1, pids \cup {m.upids[i]}))

RECURSIVE attach_collect_pids(_, _, _, _)
attach_collect_pids(un, m, i, pids) ==
    IF i > Len(m.upids) THEN [res |-> Ok(0), pids |-> pids]
    ELSE Then(IF m.upids[i] = 0 THEN m.sender.pid ELSE m.upids[i], LAMBDA pid :
         Then(attach_check_pid(un, m, pid), LAMBDA chk :
              IF pid \in pids THEN attach_collect_pids(un, m, i + 1, pids)
              ELSE IF chk.r < 0 THEN [res |-> chk, pids |-> pids]
              ELSE attach_collect_pids(un, m, i + 1, pids \cup {pid})))

\* The whole handler: its result and the calls it made to the resource
\* controller (unit_attach_pids_to_cgroup).
bus_unit_method_attach_processes(un, m) ==
    Then(attach_check_unit(un, m), LAMBDA chk :
         IF chk.r < 0 THEN [res |-> chk, attach |-> <<>>]
         ELSE IF ~m.sender.creds THEN [res |-> Error("Errno"), attach |-> <<>>]
         ELSE Then(attach_collect_pids(un, m, 1, {}), LAMBDA col :
              IF col.res.r < 0 THEN [res |-> col.res, attach |-> <<>>]
              ELSE [res    |-> IF m.attach_ok THEN Ok(1) ELSE Error("Errno"),
                    attach |-> <<[pids |-> col.pids, path |-> m.path]>>]))

(***************************************************************************)
(* SpecAttach: the unit changes its active state as the unit state machine *)
(* decides; one AttachProcesses call is then handled.                      *)
(***************************************************************************)
ActiveStates == {"active", "activating", "inactive", "failed"}

AttachInit ==
    /\ \E d \in BOOLEAN, r \in Uids :
          u = [FreshUnit EXCEPT !.load_state = "loaded", !.transient = FALSE,
                                !.cgroup_delegate = d, !.ref_uid = r]
    /\ units = {}
    /\ signals = <<>>
    /\ jobs = <<>>
    /\ kills = <<>>
    /\ attached = <<>>
    /\ call = NoCall
    /\ msg = <<>>
    /\ pre = Snapshot
    /\ dry = Snapshot

UnitNotify ==
    /\ call = NoCall
    /\ \E a \in ActiveStates \ {u.active_state} :
          u' = [u EXCEPT !.active_state = a]
    /\ pre' = Snapshot
    /\ UNCHANGED <<units, signals, jobs, kills, attached, call, msg, dry>>

AttachProcesses ==
    /\ call = NoCall
    /\ \E sender \in Senders, path \in Paths, upids \in SeqsUpTo(UPids, MaxPids),
          getuid \in ManagerUids, gone \in {{}, {11}}, attach_ok \in BOOLEAN :
       \E h \in {bus_unit_method_attach_processes(u,
                      [sender |-> sender, path |-> path, upids |-> upids, getuid |-> getuid,
                       gone |-> gone, attach_ok |-> attach_ok])} :
              /\ call' = [method |-> "AttachProcesses", status |-> "done", sender |-> sender,
                          path |-> path, upids |-> upids, getuid |-> getuid,
                          gone |-> gone, attach_ok |-> attach_ok, res |-> h.res]
              /\ attached' = attached \o h.attach
    /\ pre' = Snapshot
    /\ UNCHANGED <<u, units, signals, jobs, kills, msg, dry>>

AttachNext == UnitNotify \/ AttachProcesses

SpecAttach == AttachInit /\ [][AttachNext]_vars

AttachDone == call.method = "AttachProcesses"

\* The PIDs a request names, with 0 replaced by the sender's own PID.
RequestedPids(m) ==
    {IF m.upids[i] = 0 THEN m.sender.pid ELSE m.upids[i] : i \in DOMAIN m.upids}

\* C8 as stated: a caller whose effective uid is not root succeeds only when
\* every requested PID is owned by the caller's uid and by the unit's reference
\* uid; otherwise no process is migrated.
C8_OwnershipGate ==
    (AttachDone /\ call.sender.uid # 0)
        => \/ /\ call.res.r >= 0
              /\ \A pid \in RequestedPids(call) :
                    /\ ProcessTable[pid] = call.sender.uid
                    /\ ProcessTable[pid] = u.ref_uid
           \/ /\ call.res.r < 0
              /\ (\E pid \in RequestedPids(call) :
                     ProcessTable[pid] # call.sender.uid \/ ProcessTable[pid] # u.ref_uid)
                    => attached = <<>>

\* C9: the resource controller is called at most once per request; when it is
\* called every requested PID is attachable and passed the ownership check the
\* handler applies to this caller; when some requested PID fails a check the
\* call returns an error and the resource controller was not called at all.
PidPasses(un, m, pid) ==
    /\ pid > 1
    /\ \/ m.sender.uid = 0
       \/ m.sender.uid = m.getuid
       \/ /\ pid \notin m.gone
          /\ ProcessTable[pid] = m.sender.uid
          /\ ProcessTable[pid] = un.ref_uid

C9_AttachAllOrNothing ==
    AttachDone
        => /\ Len(attached) <= 1
           /\ Len(attached) = 1
                 => /\ \A pid \in RequestedPids(call) : PidPasses(u, call, pid)
                    /\ attached[1].pids = RequestedPids(call)
           /\ (\E pid \in RequestedPids(call) : ~PidPasses(u, call, pid))
                 => call.res.r < 0 /\ attached = <<>>

\* C9 witnesses: a two-PID request by an unprivileged caller whose second PID
\* fails the ownership check was refused without any migration.
C9_Witness ==
    /\ AttachDone
    /\ call.sender.uid = 1000 /\ call.getuid = 0
    /\ call.upids = <<10, 11>>
    /\ u.cgroup_delegate /\ u.active_state = "active" /\ u.ref_uid = 1000
    /\ call.res.err = "AccessDenied" /\ call.res.pid = 11
    /\ attached = <<>>

C11_AttachDistinctPids ==
    (AttachDone /\ call.res.r >= 0)
        => /\ Len(attached) = 1
           /\ \A i \in DOMAIN call.upids :
                 (IF call.upids[i] = 0 THEN call.sender.pid ELSE call.upids[i])
                    \in attached[1].pids
           /\ \A pid \in attached[1].pids :
                 \E i \in DOMAIN call.upids :
                    pid = call.upids[i] \/ (call.upids[i] = 0 /\ pid = call.sender.pid)
           /\ 0 \notin attached[1].pids
           /\ Cardinality(attached[1].pids) = Cardinality(RequestedPids(call))

\* C11 witness: the sender with PID 10 named 0 and 10 and one process was
\* attached.
C11_Witness ==
    /\ AttachDone
    /\ call.res.r >= 0
    /\ call.sender.pid = 10
    /\ call.upids = <<0, 10>>
    /\ Len(attached) = 1
    /\ attached[1].pids = {10}

(***************************************************************************)
(* GetProcesses and the ControlGroup property (lines 911-1080).            *)
(*                                                                         *)
(* The cgroup hierarchy is what the resource controller answers during the *)
(* call: cg.children[g] and cg.procs[g] are the subgroups and PIDs of      *)
(* group g in the order they are reported, cg.fault says which enumeration *)
(* fails and how, cg.gone are the PIDs whose process has exited.  A group  *)
(* is known to the model by a number and to the code by its path.          *)
(***************************************************************************)
ENOENT == 2
EIO == 5

GroupNames == <<"a", "b", "c">>

ProcLists == { <<>>, <<20, 2, 21>>, <<21>> }

NoFault == [group |-> 0, at |-> "none"]

CgFaults ==
    {NoFault} \cup
    {[group |-> g, at |-> k] :
        g \in {1, 2, 4},
        k \in {"processes-missing", "subgroups-missing", "processes-error",
               "subgroups-error"}}

Hierarchies ==
    {[children |-> <<top, sub, <<>>, <<>>>>, procs |-> <<p1, p2, p3, p4>>,
      fault |-> f, gone |-> gone] :
        top \in {<<>>, <<2>>, <<2, 3>>, <<3, 2>>}, sub \in {<<>>, <<4>>},
        p1 \in ProcLists, p2 \in ProcLists, p3 \in ProcLists, p4 \in ProcLists,
        f \in CgFaults, gone \in {{}, {30}}}

NoHierarchy ==
    [children |-> <<<<>>, <<>>, <<>>, <<>>>>, procs |-> <<<<>>, <<>>, <<>>, <<>>>>,
     fault |-> NoFault, gone |-> {}]

is_kernel_thread(pid) == pid = 2

\* cg_enumerate_processes(): 0 and the PID file of the group, or a negative
\* errno.
cg_enumerate_processes(cg, g) ==
    IF cg.fault.group = g /\ cg.fault.at = "processes-missing" THEN -ENOENT
    ELSE IF cg.fault.group = g /\ cg.fault.at = "processes-error" THEN -EIO
    ELSE 0

\* cg_enumerate_subgroups(): 0 and the directory of the group, or a negative
\* errno; a group that was missing for its processes is missing here too.
cg_enumerate_subgroups(cg, g) ==
    IF cg.fault.group = g /\ cg.fault.at \in {"processes-missing", "subgroups-missing"}
    THEN -ENOENT
    ELSE IF cg.fault.group = g /\ cg.fault.at = "subgroups-error" THEN -EIO
    ELSE 0

\* The group number of a subgroup, and the path strjoin(p, "/", g) gives it.
SubgroupName(g) == GroupNames[g - 1]

\* cg_pid_get_path(): the group a live process is in.
RECURSIVE GroupPathOf(_, _, _, _)
GroupPathOf(cg, g, p, pid) ==
    IF \E i \in DOMAIN cg.procs[g] : cg.procs[g][i] = pid THEN {p}
    ELSE UNION {GroupPathOf(cg, cg.children[g][i], p \o <<"/", SubgroupName(cg.children[g][i])>>,
                            pid) : i \in DOMAIN cg.children[g]}

cg_pid_get_path(cg, root, pid) ==
    IF root # NoPath /\ GroupPathOf(cg, 1, root, pid) # {}
    THEN CHOOSE p \in GroupPathOf(cg, 1, root, pid) :
            \A q \in GroupPathOf(cg, 1, root, pid) : Len(p) <= Len(q)
    ELSE <<"/", "elsewhere">>

\* What the handler has so far: its return value, the entries appended to the
\* reply and the set of PIDs seen.
GR(r, reply, pids) == [r |-> r, reply |-> reply, pids |-> pids]

\* The PID is appended whether or not it was seen before.
append_process_no_set(cg, root, p, pid, acc) ==
    IF p = NoPath
    THEN IF pid \in cg.gone THEN GR(0, acc.reply, acc.pids \cup {pid})
         ELSE GR(1, Append(acc.reply, [path |-> cg_pid_get_path(cg, root, pid), pid |-> pid]),
                 acc.pids \cup {pid})
    ELSE GR(1, Append(acc.reply, [path |-> p, pid |-> pid]), acc.pids \cup {pid})

\* Lines 939-969.  p = NoPath is the caller passing NULL for the group.
append_process(cg, root, p, pid, acc) ==
    IF pid \in acc.pids THEN GR(0, acc.reply, acc.pids)
    ELSE IF p = NoPath
    THEN IF pid \in cg.gone THEN GR(0, acc.reply, acc.pids \cup {pid})
         ELSE GR(1, Append(acc.reply, [path |-> cg_pid_get_path(cg, root, pid), pid |-> pid]),
                 acc.pids \cup {pid})
    ELSE GR(1, Append(acc.reply, [path |-> p, pid |-> pid]), acc.pids \cup {pid})

\* Lines 986-1000: the loop over the PIDs of group g, entered at position i.
RECURSIVE append_cgroup_processes(_, _, _, _, _, _)
append_cgroup_processes(cg, root, g, p, i, acc) ==
    IF i > Len(cg.procs[g]) THEN GR(0, acc.reply, acc.pids)
    ELSE IF is_kernel_thread(cg.procs[g][i])
    THEN append_cgroup_processes(cg, root, g, p, i + 1, acc)
    ELSE Then(append_process(cg, root, p, cg.procs[g][i], acc), LAMBDA a :
         IF a.r < 0 THEN a
         ELSE append_cgroup_processes(cg, root, g, p, i + 1, a))

\* The subgroups of a group are walked before its own processes are listed.
RECURSIVE append_cgroup_subgroups_first(_, _, _, _, _)
append_cgroup_subgroups_first(cg, root, g, p, acc) ==
    LET RECURSIVE Subgroups(_, _)
        Subgroups(i, a) ==
            IF i > Len(cg.children[g]) THEN a
            ELSE Subgroups(i + 1,
                     append_cgroup_subgroups_first(cg, root, cg.children[g][i],
                         p \o <<"/", SubgroupName(cg.children[g][i])>>, a))
    IN  IF cg_enumerate_processes(cg, g) # 0 \/ cg_enumerate_subgroups(cg, g) # 0
        THEN GR(-EIO, acc.reply, acc.pids)
        ELSE Then(Subgroups(1, acc), LAMBDA s :
                  append_cgroup_processes(cg, root, g, p, 1, s))

RECURSIVE append_cgroup(_, _, _, _, _)
RECURSIVE append_cgroup_subgroups(_, _, _, _, _, _)

\* Lines 1007-1024: the loop over the subgroups of group g, entered at position i.
append_cgroup_subgroups(cg, root, g, p, i, acc) ==
    IF i > Len(cg.children[g]) THEN GR(0, acc.reply, acc.pids)
    ELSE Then(append_cgroup(cg, root, cg.children[g][i],
                            p \o <<"/", SubgroupName(cg.children[g][i])>>, acc), LAMBDA a :
         IF a.r < 0 THEN a
         ELSE append_cgroup_subgroups(cg, root, g, p, i + 1, a))

\* Lines 971-1027.
append_cgroup(cg, root, g, p, acc) ==
    Then(cg_enumerate_processes(cg, g), LAMBDA r :
    IF r = ENOENT THEN GR(0, acc.reply, acc.pids)
    ELSE IF r < 0 THEN GR(r, acc.reply, acc.pids)
    ELSE Then(append_cgroup_processes(cg, root, g, p, 1, acc), LAMBDA a :
         IF a.r < 0 THEN a
         ELSE Then(cg_enumerate_subgroups(cg, g), LAMBDA r2 :
              IF r2 = -ENOENT THEN GR(0, a.reply, a.pids)
              ELSE IF r2 < 0 THEN GR(r2, a.reply, a.pids)
              ELSE append_cgroup_subgroups(cg, root, g, p, 1, a))))

unit_main_pid(un) == un.main_pid
unit_control_pid(un) == un.control_pid

\* Lines 1029-1080: the result is the return value and the reply that was sent.
bus_unit_method_get_processes(un, cg, faults) ==
    IF "mac_selinux_unit_access_check" \in faults THEN [r |-> -1, sent |-> <<>>]
    ELSE Then(IF un.cgroup_path # NoPath
              THEN append_cgroup(cg, un.cgroup_path, 1, un.cgroup_path, GR(0, <<>>, {}))
              ELSE GR(0, <<>>, {}), LAMBDA w :
         IF w.r < 0 THEN [r |-> w.r, sent |-> <<>>]
         ELSE Then(IF unit_main_pid(un) > 0
                   THEN append_process(cg, un.cgroup_path, NoPath, unit_main_pid(un), w)
                   ELSE w, LAMBDA mp :
              IF mp.r < 0 THEN [r |-> mp.r, sent |-> <<>>]
              ELSE Then(IF unit_control_pid(un) > 0
                        THEN append_process(cg, un.cgroup_path, NoPath,
                                            unit_control_pid(un), mp)
                        ELSE mp, LAMBDA cp :
                   IF cp.r < 0 THEN [r |-> cp.r, sent |-> <<>>]
                   ELSE [r |-> 1, sent |-> <<cp.reply>>])))

empty_to_root(path) == IF path = <<>> THEN <<"/">> ELSE path

\* The path is reported as it is stored.
property_get_cgroup_verbatim(un) ==
    IF un.cgroup_path # NoPath THEN un.cgroup_path ELSE <<>>

\* Lines 911-937: the string appended to the reply (NULL is sent as "").
property_get_cgroup(un) ==
    IF un.cgroup_path # NoPath THEN empty_to_root(un.cgroup_path) ELSE <<>>

(***************************************************************************)
(* SpecProc: a unit with or without a control group and with recorded main *)
(* and control PIDs; one GetProcesses call or one read of ControlGroup is  *)
(* handled.                                                                *)
(***************************************************************************)
CgroupPaths == {NoPath, <<>>, <<"/", "u">>}

ProcInit ==
    /\ \E cp \in CgroupPaths, mp \in {0, 20, 30}, xp \in {0, 21, 30} :
          u = [FreshUnit EXCEPT !.load_state = "loaded", !.transient = FALSE,
                                !.active_state = "active", !.cgroup_path = cp,
                                !.main_pid = mp, !.control_pid = xp]
    /\ units = {}
    /\ signals = <<>>
    /\ jobs = <<>>
    /\ kills = <<>>
    /\ attached = <<>>
    /\ call = NoCall
    /\ msg = <<>>
    /\ pre = Snapshot
    /\ dry = Snapshot

GetProcesses ==
    /\ call = NoCall
    /\ \E cg \in (IF u.cgroup_path = NoPath
                  THEN {NoHierarchy, [NoHierarchy EXCEPT !.gone = {30}]}
                  ELSE Hierarchies),
          faults \in {{}, {"mac_selinux_unit_access_check"}} :
       \E h \in {bus_unit_method_get_processes(u, cg, faults)} :
          call' = [method |-> "GetProcesses", status |-> "done", cg |-> cg,
                   faults |-> faults, r |-> h.r, sent |-> h.sent]
    /\ pre' = Snapshot
    /\ UNCHANGED <<u, units, signals, jobs, kills, attached, msg, dry>>

GetControlGroup ==
    /\ call = NoCall
    /\ call' = [method |-> "Get", status |-> "done", property |-> "ControlGroup",
                r |-> 1, value |-> property_get_cgroup(u)]
    /\ pre' = Snapshot
    /\ UNCHANGED <<u, units, signals, jobs, kills, attached, msg, dry>>

ProcNext == GetProcesses \/ GetControlGroup

SpecProc == ProcInit /\ [][ProcNext]_vars

GetProcessesDone == call.method = "GetProcesses"

\* The reply of a GetProcesses call that was answered.
Reply == call.sent[1]

\* C12: the reply of GetProcesses never names the same PID twice, whatever the
\* cgroup tree and the recorded main and control PIDs are.
C12_NoPidTwice ==
    (GetProcessesDone /\ call.r >= 0)
        => \A i, j \in DOMAIN Reply : Reply[i].pid = Reply[j].pid => i = j

\* C12 witness: PID 21 is in the unit's group and in two subgroups and is the
\* control PID, PID 20 is in the subtree and is the main PID, the reply was sent.
C12_Witness ==
    /\ GetProcessesDone
    /\ call.r >= 0
    /\ call.cg.children[1] = <<2, 3>>
    /\ call.cg.procs[1] = <<21>> /\ call.cg.procs[2] = <<20, 2, 21>>
    /\ call.cg.procs[3] = <<21>>
    /\ u.main_pid = 20 /\ u.control_pid = 21
    /\ Len(Reply) = 2

\* C13: a group that is missing when its processes or its subgroups are
\* enumerated counts as empty and the call is answered; only other
\* enumeration errors make the call fail.
C13_MissingGroupIsEmpty ==
    (GetProcessesDone /\ call.faults = {})
        => /\ call.cg.fault.at \in {"none", "processes-missing", "subgroups-missing"}
                 => call.r >= 0
           /\ call.r < 0 => call.cg.fault.at \in {"processes-error", "subgroups-error"}

\* The listing the specification describes, written down independently of the
\* handler: the processes of a group that are no kernel threads, then the
\* listings of its subgroups in the order reported (none when the group's
\* directory is gone).
RECURSIVE PreOrder(_, _, _)
PreOrder(cg, g, p) ==
    LET own == SelectSeq([i \in DOMAIN cg.procs[g] |-> [path |-> p, pid |-> cg.procs[g][i]]],
                         LAMBDA e : e.pid # 2)
        RECURSIVE Below(_)
        Below(i) ==
            IF i > Len(cg.children[g]) THEN <<>>
            ELSE PreOrder(cg, cg.children[g][i],
                          p \o <<"/", GroupNames[cg.children[g][i] - 1]>>) \o Below(i + 1)
    IN  IF cg.fault.group = g /\ cg.fault.at = "subgroups-missing" THEN own
        ELSE own \o Below(1)

\* A listing without the later occurrences of a PID.
RECURSIVE FirstOccurrences(_, _)
FirstOccurrences(l, seen) ==
    IF l = <<>> THEN <<>>
    ELSE IF Head(l).pid \in seen THEN FirstOccurrences(Tail(l), seen)
    ELSE <<Head(l)>> \o FirstOccurrences(Tail(l), seen \cup {Head(l).pid})

\* The PIDs the tree walk lists.
WalkPids == IF u.cgroup_path = NoPath THEN {}
            ELSE {PreOrder(call.cg, 1, u.cgroup_path)[i].pid :
                     i \in DOMAIN PreOrder(call.cg, 1, u.cgroup_path)}

\* The recorded main PID and then the control PID, those that are positive,
\* not listed by the walk, and still alive.
ExtraPids ==
    LET mp == IF u.main_pid > 0 /\ u.main_pid \notin WalkPids /\ u.main_pid \notin call.cg.gone
              THEN <<u.main_pid>> ELSE <<>>
        xp == IF /\ u.control_pid > 0
                 /\ u.control_pid \notin WalkPids
                 /\ u.control_pid # u.main_pid
                 /\ u.control_pid \notin call.cg.gone
              THEN <<u.control_pid>> ELSE <<>>
    IN  mp \o xp

\* C14: the reply lists the tree depth-first in pre-order (the processes of a
\* group before its subgroups, the subgroups in the order reported, no kernel
\* threads), and after all of that the main PID and then the control PID when
\* they are positive and not listed yet.
C14_PreOrderThenMainControl ==
    (GetProcessesDone /\ call.r >= 0)
        => LET walk == IF u.cgroup_path = NoPath THEN <<>>
                       ELSE FirstOccurrences(PreOrder(call.cg, 1, u.cgroup_path), {})
           IN  /\ Len(Reply) = Len(walk) + Len(ExtraPids)
               /\ \A i \in DOMAIN walk : Reply[i] = walk[i]
               /\ \A i \in DOMAIN ExtraPids : Reply[Len(walk) + i].pid = ExtraPids[i]

\* C14 witness: a tree of depth two with two subgroups at the top, processes in
\* every group, and main and control PIDs outside the tree.
C14_Witness ==
    /\ GetProcessesDone
    /\ call.r >= 0
    /\ call.cg.children[1] = <<3, 2>> /\ call.cg.children[2] = <<4>>
    /\ call.cg.procs = << <<21>>, <<20, 2, 21>>, <<20, 2, 21>>, <<20, 2, 21>> >>
    /\ u.cgroup_path = <<"/", "u">>
    /\ u.main_pid = 30 /\ u.control_pid = 30
    /\ call.cg.gone = {}
    /\ Len(Reply) = 3
    /\ Reply[2] = [path |-> <<"/", "u", "/", "b">>, pid |-> 20]
    /\ Reply[3].pid = 30

\* C15: the ControlGroup property reports the empty string for a unit without
\* a cgroup path (NULL), "/" for the empty path, and any other path as it is.
C15_TriStatePath ==
    (call.method = "Get" /\ call.property = "ControlGroup")
        => /\ u.cgroup_path = NoPath => call.value = <<>>
           /\ u.cgroup_path = <<>> => call.value = <<"/">>
           /\ u.cgroup_path \notin {NoPath, <<>>} => call.value = u.cgroup_path

\* C15 witness: the property of a unit in the root cgroup was read as "/".
C15_Witness ==
    /\ call.method = "Get"
    /\ call.property = "ControlGroup"
    /\ u.cgroup_path = <<>>
    /\ call.value = <<"/">>

(***************************************************************************)
(* The property transaction engine (bus_unit_set_properties).              *)
(*                                                                         *)
(* Strings that the code parses are sequences of tokens: a unit name is    *)
(* its prefix, an optional "@" and instance, and its type suffix; a URL is *)
(* its scheme and its rest; a path is as above.  An entry of the property  *)
(* array is (name, signature of the variant, value).  A handler result is  *)
(* r (1 handled, 0 not mine, negative error), the bus error and the state  *)
(* st = (unit, manager's units) the handler leaves behind.                 *)
(***************************************************************************)
EntryTable ==
    << [name |-> "Description", sig |-> "s", v |-> <<"d">>],
       [name |-> "SubProperty", sig |-> "u", v |-> 7],
       [name |-> "RefuseManualStart", sig |-> "b", v |-> TRUE],
       [name |-> "JobTimeoutUSec", sig |-> "t", v |-> 5],
       [name |-> "JobRunningTimeoutUSec", sig |-> "t", v |-> 9],
       [name |-> "Conditions", sig |-> "a(sbbs)", v |->
           << [type |-> "ConditionPathExists", trigger |-> FALSE, negate |-> FALSE,
               param |-> <<"/", "p">>],
              [type |-> "ConditionKernelCommandLine", trigger |-> TRUE, negate |-> TRUE,
               param |-> <<"q">>] >>],
       [name |-> "Conditions", sig |-> "a(sbbs)", v |-> <<>>],
       [name |-> "Conditions", sig |-> "a(sbbs)", v |->
           << [type |-> "ConditionNull", trigger |-> FALSE, negate |-> TRUE,
               param |-> <<"q">>] >>],
       [name |-> "Conditions", sig |-> "a(sbbs)", v |->
           << [type |-> "ConditionPathExists", trigger |-> FALSE, negate |-> FALSE,
               param |-> <<"/", "p">>],
              [type |-> "ConditionBogus", trigger |-> FALSE, negate |-> FALSE,
               param |-> <<"q">>] >>],
       [name |-> "Conditions", sig |-> "a(sbbs)", v |->
           << [type |-> "ConditionKernelCommandLine", trigger |-> FALSE, negate |-> FALSE,
               param |-> <<>>] >>],
       [name |-> "Conditions", sig |-> "a(sbbs)", v |->
           << [type |-> "ConditionPathExists", trigger |-> FALSE, negate |-> FALSE,
               param |-> <<"p">>] >>],
       [name |-> "Asserts", sig |-> "a(sbbs)", v |->
           << [type |-> "AssertPathExists", trigger |-> FALSE, negate |-> TRUE,
               param |-> <<"/", "p">>] >>],
       [name |-> "Documentation", sig |-> "as", v |-> << <<"man:", "x">> >>],
       [name |-> "Documentation", sig |-> "as", v |-> << <<"man:", "x">>, <<"x">> >>],
       [name |-> "Slice", sig |-> "s", v |-> <<"system", ".slice">>],
       [name |-> "Slice", sig |-> "s", v |-> <<"new", ".slice">>],
       [name |-> "Slice", sig |-> "s", v |-> <<"b", ".service">>],
       [name |-> "RequiresMountsFor", sig |-> "as", v |-> << <<"/", "m">> >>],
       [name |-> "RequiresMountsFor", sig |-> "as", v |-> << <<"/", "m">>, <<"m">> >>],
       [name |-> "Wants", sig |-> "as", v |->
           << <<"b", ".service">>, <<"c", "@", "i", ".service">> >>],
       [name |-> "Wants", sig |-> "as", v |-> << <<"b", ".service">>, <<"bad">> >>],
       [name |-> "AddRef", sig |-> "b", v |-> TRUE],
       [name |-> "Description", sig |-> "b", v |-> TRUE],
       [name |-> "Bogus", sig |-> "s", v |-> <<"d">>],
       [name |-> "Asserts", sig |-> "a(sbbs)", v |-> <<>>] >>

EntryIds == DOMAIN EntryTable

\* UnitWriteFlags: the two target flags.
UNIT_WRITE_FLAGS_NOOP(flags) == flags \cap {"RUNTIME", "PERSISTENT"} = {}

PR(r, err, st) == [r |-> r, err |-> err, st |-> st]

unit_write_settingf(un, flags, name, detail) ==
    IF UNIT_WRITE_FLAGS_NOOP(flags) THEN un
    ELSE [un EXCEPT !.settings = @ \cup {<<name, detail>>}]

UnitSuffixes == {".service", ".slice"}

unit_name_is_valid(n, kinds) ==
    /\ Len(n) >= 2
    /\ n[Len(n)] \in UnitSuffixes
    /\ n[1] \notin UnitSuffixes \cup {"@"}
    /\ \/ "PLAIN" \in kinds /\ Len(n) = 2
       \/ "INSTANCE" \in kinds /\ Len(n) = 4 /\ n[2] = "@" /\ n[3] \notin UnitSuffixes \cup {"@"}
       \/ "TEMPLATE" \in kinds /\ Len(n) = 3 /\ n[2] = "@"

unit_name_to_type(n) == IF n[Len(n)] = ".slice" THEN "slice" ELSE "service"

documentation_url_is_valid(url) ==
    Len(url) = 2 /\ url[1] \in {"http://", "https://", "file:/", "info:", "man:"}

\* manager_load_unit_prepare(): the unit of that name, allocated and queued for
\* loading when the manager does not know it yet.
manager_load_unit_prepare(st, name, faults) ==
    IF "manager_load_unit_prepare" \in faults THEN PR(-1, "Errno", st)
    ELSE PR(0, "", [st EXCEPT !.units = @ \cup {name}])

unit_add_dependency_by_name(st, d, other, faults) ==
    IF "unit_add_dependency_by_name" \in faults THEN PR(-1, "Errno", st)
    ELSE PR(0, "", [st EXCEPT !.units = @ \cup {other},
                              !.u.dependencies = @ \cup {<<d, other>>}])

unit_set_slice(st, slice, faults) ==
    IF "unit_set_slice" \in faults THEN PR(-1, "Errno", st)
    ELSE PR(0, "", [st EXCEPT !.u.slice = slice])

unit_require_mounts_for(st, path, faults) ==
    IF "unit_require_mounts_for" \in faults THEN PR(-1, "Errno", st)
    ELSE PR(0, "", [st EXCEPT !.u.requires_mounts_for = @ \cup {path}])

unit_set_description(st, d) == [st EXCEPT !.u.description = d]

bus_unit_set_live_property(st, e, flags) ==
    IF e.name = "Description"
    THEN IF e.sig # "s" THEN PR(-1, "Errno", st)
         ELSE IF ~UNIT_WRITE_FLAGS_NOOP(flags)
         THEN PR(1, "", [unit_set_description(st, e.v) EXCEPT
                            !.u = unit_write_settingf(@, flags, e.name, e.v)])
         ELSE PR(1, "", st)
    ELSE PR(0, "", st)

\* The scalar helpers of dbus-util.c: read one value of the signature, and
\* unless the flags are a no-op store it in the field and write the setting.
bus_set_transient_scalar(st, field, sig, val, e, flags) ==
    IF e.sig # sig THEN PR(-1, "Errno", st)
    ELSE IF UNIT_WRITE_FLAGS_NOOP(flags) THEN PR(1, "", st)
    ELSE PR(1, "", [st EXCEPT !.u = unit_write_settingf([@ EXCEPT ![field] = val],
                                                        flags, e.name, <<>>)])

bus_set_transient_bool(st, field, e, flags) ==
    bus_set_transient_scalar(st, field, "b", e.v, e, flags)

bus_set_transient_usec_fix_0(st, field, e, flags) ==
    bus_set_transient_scalar(st, field, "t",
                             IF e.sig = "t" /\ e.v = 0 THEN USEC_INFINITY ELSE e.v, e, flags)

ConditionTypes == {"PathExists", "KernelCommandLine", "Null"}

condition_type_from_string(name) ==
    CASE name = "ConditionPathExists" -> "PathExists"
      [] name = "ConditionKernelCommandLine" -> "KernelCommandLine"
      [] name = "ConditionNull" -> "Null"
      [] OTHER -> "_INVALID"

assert_type_from_string(name) ==
    CASE name = "AssertPathExists" -> "PathExists"
      [] name = "AssertKernelCommandLine" -> "KernelCommandLine"
      [] name = "AssertNull" -> "Null"
      [] OTHER -> "_INVALID"

condition_type_to_string(t) == IF t = "PathExists" THEN "ConditionPathExists"
                               ELSE IF t = "KernelCommandLine" THEN "ConditionKernelCommandLine"
                               ELSE "ConditionNull"

assert_type_to_string(t) == IF t = "PathExists" THEN "AssertPathExists"
                            ELSE IF t = "KernelCommandLine" THEN "AssertKernelCommandLine"
                            ELSE "AssertNull"

condition_takes_path(t) == t = "PathExists"

condition_new(t, param, trigger, negate) ==
    [type |-> t, parameter |-> param, trigger |-> trigger, negate |-> negate,
     result |-> "untested"]

\* Lines 376-416: the array the Conditions (Asserts) property is read as.
property_get_conditions(list, property) ==
    [i \in 1..Len(list) |->
        [type      |-> IF property = "Asserts" THEN assert_type_to_string(list[i].type)
                       ELSE condition_type_to_string(list[i].type),
         trigger   |-> list[i].trigger,
         negate    |-> list[i].negate,
         param     |-> list[i].parameter,
         state     |-> IF list[i].result = "untested" THEN 0
                       ELSE IF list[i].result = "succeeded" THEN 1 ELSE -1]]

\* The new condition is put at the end of the list.
LIST_APPEND(list, c) == list \o <<c>>

\* LIST_PREPEND(conditions, *list, c)
LIST_PREPEND(list, c) == <<c>> \o list

\* A parameter is not looked at before the condition is made.
RECURSIVE set_transient_conditions_loop_no_param_check(_, _, _, _, _, _)
set_transient_conditions_loop_no_param_check(st, field, is_condition, e, i, flags) ==
    IF i > Len(e.v) THEN PR(1, "", st)
    ELSE Then(e.v[i], LAMBDA it :
         Then(IF is_condition THEN condition_type_from_string(it.type)
              ELSE assert_type_from_string(it.type), LAMBDA t :
              IF t = "_INVALID" THEN PR(-1, "InvalidArgs", st)
              ELSE IF ~UNIT_WRITE_FLAGS_NOOP(flags)
              THEN Then(condition_new(t, it.param, it.trigger, it.negate), LAMBDA c :
                   Then([st EXCEPT !.u[field] = LIST_PREPEND(@, c)], LAMBDA s1 :
                   Then([s1 EXCEPT !.u = unit_write_settingf(@, flags, e.name, <<it.type>>)],
                        LAMBDA s2 :
                        set_transient_conditions_loop_no_param_check(
                            s2, field, is_condition, e, i + 1, flags))))
              ELSE set_transient_conditions_loop_no_param_check(
                       st, field, is_condition, e, i + 1, flags)))

\* Lines 1481-1517: the loop over the array; field is the list written
\* ("conditions" or "asserts").
RECURSIVE set_transient_conditions_loop(_, _, _, _, _, _)
set_transient_conditions_loop(st, field, is_condition, e, i, flags) ==
    IF i > Len(e.v) THEN PR(1, "", st)
    ELSE Then(e.v[i], LAMBDA it :
         Then(IF is_condition THEN condition_type_from_string(it.type)
              ELSE assert_type_from_string(it.type), LAMBDA t :
              IF t = "_INVALID" THEN PR(-1, "InvalidArgs", st)
              ELSE IF t # "Null" /\ it.param = <<>> THEN PR(-1, "InvalidArgs", st)
              ELSE IF t # "Null" /\ condition_takes_path(t) /\ ~path_is_absolute(it.param)
              THEN PR(-1, "InvalidArgs", st)
              ELSE IF ~UNIT_WRITE_FLAGS_NOOP(flags)
              THEN Then(condition_new(t, IF t # "Null" THEN it.param ELSE <<>>,
                                      it.trigger, it.negate), LAMBDA c :
                   Then([st EXCEPT !.u[field] = LIST_PREPEND(@, c)], LAMBDA s1 :
                   Then([s1 EXCEPT !.u = unit_write_settingf(@, flags, e.name, <<it.type>>)],
                        LAMBDA s2 :
                        set_transient_conditions_loop(s2, field, is_condition, e, i + 1,
                                                      flags))))
              ELSE set_transient_conditions_loop(st, field, is_condition, e, i + 1, flags)))

\* The list is freed before a non-empty array is stored.
bus_set_transient_conditions_replace(st, field, is_condition, e, flags) ==
    IF e.sig # "a(sbbs)" THEN PR(-1, "Errno", st)
    ELSE Then(set_transient_conditions_loop(
                  IF UNIT_WRITE_FLAGS_NOOP(flags) THEN st ELSE [st EXCEPT !.u[field] = <<>>],
                  field, is_condition, e, 1, flags), LAMBDA l :
         IF l.r < 0 THEN l
         ELSE IF ~UNIT_WRITE_FLAGS_NOOP(flags) /\ Len(e.v) = 0
         THEN PR(1, "", [l.st EXCEPT
                            !.u = unit_write_settingf([@ EXCEPT ![field] = <<>>],
                                                      flags, e.name, <<>>)])
         ELSE PR(1, "", l.st))

\* An empty array leaves the list alone.
bus_set_transient_conditions_no_clear(st, field, is_condition, e, flags) ==
    IF e.sig # "a(sbbs)" THEN PR(-1, "Errno", st)
    ELSE Then(set_transient_conditions_loop(st, field, is_condition, e, 1, flags), LAMBDA l :
         IF l.r < 0 THEN l ELSE PR(1, "", l.st))

bus_set_transient_conditions(st, field, is_condition, e, flags) ==
    IF e.sig # "a(sbbs)" THEN PR(-1, "Errno", st)
    ELSE Then(set_transient_conditions_loop(st, field, is_condition, e, 1, flags), LAMBDA l :
         Then(Len(e.v) = 0, LAMBDA empty :
              IF l.r < 0 THEN l
              ELSE IF ~UNIT_WRITE_FLAGS_NOOP(flags) /\ empty
              THEN PR(1, "", [l.st EXCEPT
                                 !.u = unit_write_settingf([@ EXCEPT ![field] = <<>>],
                                                           flags, e.name, <<>>)])
              ELSE PR(1, "", l.st)))

UNIT_HAS_CGROUP_CONTEXT(un) == un.type \in {"service", "slice"}

unit_dependency_from_string(name) ==
    IF name \in {"Requires", "Wants", "After"} THEN name ELSE "_INVALID"

\* Lines 1629-1632: every URL is checked before anything is stored.
documentation_all_valid(l) == \A i \in DOMAIN l : documentation_url_is_valid(l[i])

RECURSIVE write_documentation_settings(_, _, _, _, _)
write_documentation_settings(un, flags, name, l, i) ==
    IF i > Len(l) THEN un
    ELSE write_documentation_settings(unit_write_settingf(un, flags, name, l[i]),
                                      flags, name, l, i + 1)

set_transient_documentation(st, e, flags) ==
    IF e.sig # "as" THEN PR(-1, "Errno", st)
    ELSE IF ~documentation_all_valid(e.v) THEN PR(-1, "InvalidArgs", st)
    ELSE IF UNIT_WRITE_FLAGS_NOOP(flags) THEN PR(1, "", st)
    ELSE IF Len(e.v) = 0
    THEN PR(1, "", [st EXCEPT !.u = unit_write_settingf([@ EXCEPT !.documentation = <<>>],
                                                        flags, e.name, <<>>)])
    ELSE PR(1, "", [st EXCEPT !.u = write_documentation_settings(
                                        [@ EXCEPT !.documentation = @ \o e.v],
                                        flags, e.name, e.v, 1)])

\* Lines 1648-1684.  The named unit is looked up with
\* manager_load_unit_prepare() whatever the flags are.
set_transient_slice(st, e, flags, faults) ==
    IF ~UNIT_HAS_CGROUP_CONTEXT(st.u) THEN PR(-1, "InvalidArgs", st)
    ELSE IF st.u.type = "slice" THEN PR(-1, "InvalidArgs", st)
    ELSE IF st.u.id = "init.scope" THEN PR(-1, "InvalidArgs", st)
    ELSE IF e.sig # "s" THEN PR(-1, "Errno", st)
    ELSE IF ~unit_name_is_valid(e.v, {"PLAIN"}) THEN PR(-1, "InvalidArgs", st)
    ELSE Then(manager_load_unit_prepare(st, e.v, faults), LAMBDA l :
         IF l.r < 0 THEN l
         ELSE IF unit_name_to_type(e.v) # "slice" THEN PR(-1, "InvalidArgs", l.st)
         ELSE IF UNIT_WRITE_FLAGS_NOOP(flags) THEN PR(1, "", l.st)
         ELSE Then(unit_set_slice(l.st, e.v, faults), LAMBDA s :
              IF s.r < 0 THEN s
              ELSE PR(1, "", [s.st EXCEPT !.u = unit_write_settingf(@, flags, e.name, e.v)])))

\* Lines 1694-1705: each path is checked and, on commit, added before the next
\* one is looked at.
RECURSIVE set_transient_requires_mounts_for_loop(_, _, _, _, _)
set_transient_requires_mounts_for_loop(st, e, i, flags, faults) ==
    IF i > Len(e.v) THEN PR(1, "", st)
    ELSE IF ~path_is_absolute(e.v[i]) THEN PR(-1, "InvalidArgs", st)
    ELSE IF UNIT_WRITE_FLAGS_NOOP(flags)
    THEN set_transient_requires_mounts_for_loop(st, e, i + 1, flags, faults)
    ELSE Then(unit_require_mounts_for(st, e.v[i], faults), LAMBDA a :
         IF a.r < 0 THEN PR(-1, "InvalidArgs", a.st)
         ELSE Then([a.st EXCEPT !.u = unit_write_settingf(@, flags, e.name, e.v[i])],
                   LAMBDA s1 :
                   set_transient_requires_mounts_for_loop(s1, e, i + 1, flags, faults)))

\* Lines 1724-1742: each name is checked and, on commit, the dependency is
\* added before the next one is looked at.
RECURSIVE set_transient_dependencies_loop(_, _, _, _, _, _)
set_transient_dependencies_loop(st, d, e, i, flags, faults) ==
    IF i > Len(e.v) THEN PR(1, "", st)
    ELSE IF ~unit_name_is_valid(e.v[i], {"PLAIN", "INSTANCE"}) THEN PR(-1, "InvalidArgs", st)
    ELSE IF UNIT_WRITE_FLAGS_NOOP(flags)
    THEN set_transient_dependencies_loop(st, d, e, i + 1, flags, faults)
    ELSE Then(unit_add_dependency_by_name(st, d, e.v[i], faults), LAMBDA a :
         IF a.r < 0 THEN a
         ELSE Then([a.st EXCEPT !.u = unit_write_settingf(@, flags, e.name, e.v[i])],
                   LAMBDA s1 :
                   set_transient_dependencies_loop(s1, d, e, i + 1, flags, faults)))

\* Lines 1710-1776: what follows the JobRunningTimeoutUSec branch for a name
\* that is none of the scalar, list, Slice or RequiresMountsFor properties.
set_transient_dependency_or_addref(st, e, flags, faults) ==
    Then(IF e.name = "RequiresOverridable" THEN "Requires"
         ELSE IF e.name = "RequisiteOverridable" THEN "Requisite"
         ELSE unit_dependency_from_string(e.name), LAMBDA d :
         IF d # "_INVALID"
         THEN IF e.sig # "as" THEN PR(-1, "Errno", st)
              ELSE set_transient_dependencies_loop(st, d, e, 1, flags, faults)
         ELSE IF e.name = "AddRef"
         THEN IF e.sig # "b" THEN PR(-1, "Errno", st)
              ELSE IF ~UNIT_WRITE_FLAGS_NOOP(flags)
              THEN PR(1, "", [st EXCEPT !.u.bus_track_add = e.v])
              ELSE PR(1, "", st)
         ELSE PR(0, "", st))

\* Lines 1574-1578: the JobTimeoutUSec branch has no return; control goes on
\* to the comparisons below it with the value already consumed, and no later
\* comparison matches the name.
set_transient_job_timeout(st, e, flags, faults) ==
    Then(bus_set_transient_usec_fix_0(st, "job_timeout", e, flags), LAMBDA r :
    Then(IF r.r >= 0 /\ ~UNIT_WRITE_FLAGS_NOOP(flags) /\ ~r.st.u.job_running_timeout_set
         THEN [r.st EXCEPT !.u.job_running_timeout = r.st.u.job_timeout]
         ELSE r.st, LAMBDA s1 :
         set_transient_dependency_or_addref(s1, e, flags, faults)))

set_transient_job_running_timeout(st, e, flags) ==
    Then(bus_set_transient_usec_fix_0(st, "job_running_timeout", e, flags), LAMBDA r :
         IF r.r >= 0 /\ ~UNIT_WRITE_FLAGS_NOOP(flags)
         THEN PR(r.r, r.err, [r.st EXCEPT !.u.job_running_timeout_set = TRUE])
         ELSE r)

\* Lines 1550-1776.  Of the scalar properties that go through the same helper
\* (StopWhenUnneeded, AllowIsolate, ...) the two refuse-manual flags stand in.
bus_unit_set_transient_property(st, e, flags, faults) ==
    CASE e.name = "RefuseManualStart" -> bus_set_transient_bool(st, "refuse_manual_start", e, flags)
      [] e.name = "RefuseManualStop" -> bus_set_transient_bool(st, "refuse_manual_stop", e, flags)
      [] e.name = "JobTimeoutUSec" -> set_transient_job_timeout(st, e, flags, faults)
      [] e.name = "JobRunningTimeoutUSec" -> set_transient_job_running_timeout(st, e, flags)
      [] e.name = "Conditions" ->
            bus_set_transient_conditions(st, "conditions", TRUE, e, flags)
      [] e.name = "Asserts" ->
            bus_set_transient_conditions(st, "asserts", FALSE, e, flags)
      [] e.name = "Documentation" -> set_transient_documentation(st, e, flags)
      [] e.name = "Slice" -> set_transient_slice(st, e, flags, faults)
      [] e.name = "RequiresMountsFor" ->
            set_transient_requires_mounts_for_loop(st, e, 1, flags, faults)
      [] OTHER -> set_transient_dependency_or_addref(st, e, flags, faults)

\* UNIT_VTABLE(u)->bus_set_property and ->bus_commit_properties: the unit
\* type's own handler (none for a device unit) and its commit hook.
vtable_has_bus_set_property(un) == un.type # "device"

vtable_bus_set_property(st, e, flags) ==
    IF e.name # "SubProperty" THEN PR(0, "", st)
    ELSE IF e.sig # "u" THEN PR(-1, "Errno", st)
    ELSE IF e.v = 0 THEN PR(-1, "InvalidArgs", st)
    ELSE IF UNIT_WRITE_FLAGS_NOOP(flags) THEN PR(1, "", st)
    ELSE PR(1, "", [st EXCEPT !.u = unit_write_settingf([@ EXCEPT !.sub_property = e.v],
                                                        flags, e.name, <<>>)])

vtable_bus_commit_properties(st) == [st EXCEPT !.u.sub_commits = @ + 1]

\* Line 1834: in the first pass the two target flags are masked out.
PassFlags_unmasked(flags, for_real) == flags

PassFlags(flags, for_real) ==
    IF for_real THEN flags ELSE flags \ {"RUNTIME", "PERSISTENT"}

\* The transient handler is tried on every unit.
set_property_dispatch_always_transient(st, e, f, faults) ==
    Then(vtable_bus_set_property(st, e, f), LAMBDA r1 :
    Then(IF r1.r = 0
         THEN bus_unit_set_transient_property(r1.st, e, f, faults)
         ELSE r1, LAMBDA r2 :
    Then(IF r2.r = 0 THEN bus_unit_set_live_property(r2.st, e, f) ELSE r2, LAMBDA r3 :
         IF r3.r < 0 THEN r3
         ELSE IF r3.r = 0 THEN PR(-1, "PropertyReadOnly", r3.st)
         ELSE r3)))

\* An entry no handler took is passed over.
set_property_dispatch_ignore_unknown(st, e, f, faults) ==
    Then(vtable_bus_set_property(st, e, f), LAMBDA r1 :
    Then(IF r1.r = 0 /\ r1.st.u.transient /\ r1.st.u.load_state = "stub"
         THEN bus_unit_set_transient_property(r1.st, e, f, faults)
         ELSE r1, LAMBDA r2 :
    Then(IF r2.r = 0 THEN bus_unit_set_live_property(r2.st, e, f) ELSE r2, LAMBDA r3 :
         r3)))

\* Lines 1836-1845: one entry is offered to the unit type's handler, then to
\* the transient handler while the unit is a transient stub, then to the live
\* handler.
set_property_dispatch(st, e, f, faults) ==
    Then(vtable_bus_set_property(st, e, f), LAMBDA r1 :
    Then(IF r1.r = 0 /\ r1.st.u.transient /\ r1.st.u.load_state = "stub"
         THEN bus_unit_set_transient_property(r1.st, e, f, faults)
         ELSE r1, LAMBDA r2 :
    Then(IF r2.r = 0 THEN bus_unit_set_live_property(r2.st, e, f) ELSE r2, LAMBDA r3 :
         IF r3.r < 0 THEN r3
         ELSE IF r3.r = 0 THEN PR(-1, "PropertyReadOnly", r3.st)
         ELSE r3)))

\* The result of bus_unit_set_properties: r (the count, or negative), the bus
\* error, the state left behind, and for the properties the state at the end of
\* the first pass and the handler invocations made (entry position, for_real).
SetResult(r, err, st, drySt, trace) ==
    [r |-> r, err |-> err, st |-> st, dry |-> drySt, trace |-> trace]

\* A failure in the second pass puts the state back to what it was when the
\* pass began.
RECURSIVE set_properties_loop_rollback(_, _, _, _, _, _, _)
set_properties_loop_rollback(st, m, i, for_real, n, drySt, trace) ==
    IF i > Len(m.entries)
    THEN IF for_real \/ UNIT_WRITE_FLAGS_NOOP(m.flags)
         THEN SetResult(n, "", st, IF for_real THEN drySt ELSE st, trace)
         ELSE set_properties_loop_rollback(st, m, 1, TRUE, n, st, trace)
    ELSE IF ~vtable_has_bus_set_property(st.u)
    THEN SetResult(-1, "PropertyReadOnly", st, IF for_real THEN drySt ELSE st, trace)
    ELSE Then(set_property_dispatch(st, EntryTable[m.entries[i]],
                                    PassFlags(m.flags, for_real), m.faults), LAMBDA r :
         Then(Append(trace, [entry |-> i, for_real |-> for_real]), LAMBDA t :
              IF r.r < 0
              THEN SetResult(r.r, r.err, IF for_real THEN drySt ELSE r.st,
                             IF for_real THEN drySt ELSE r.st, t)
              ELSE set_properties_loop_rollback(r.st, m, i + 1, for_real,
                                                n + (IF for_real THEN 1 ELSE 0), drySt, t)))

\* Lines 1802-1856: the loop over the array, entered at position i.
RECURSIVE set_properties_loop(_, _, _, _, _, _, _)
set_properties_loop(st, m, i, for_real, n, drySt, trace) ==
    IF i > Len(m.entries)
    THEN IF for_real \/ UNIT_WRITE_FLAGS_NOOP(m.flags)
         THEN SetResult(n, "", st, IF for_real THEN drySt ELSE st, trace)
         ELSE set_properties_loop(st, m, 1, TRUE, n, st, trace)
    ELSE IF ~vtable_has_bus_set_property(st.u)
    THEN SetResult(-1, "PropertyReadOnly", st, IF for_real THEN drySt ELSE st, trace)
    ELSE Then(set_property_dispatch(st, EntryTable[m.entries[i]],
                                    PassFlags(m.flags, for_real), m.faults), LAMBDA r :
         Then(Append(trace, [entry |-> i, for_real |-> for_real]), LAMBDA t :
              IF r.r < 0
              THEN SetResult(r.r, r.err, r.st, IF for_real THEN drySt ELSE r.st, t)
              ELSE set_properties_loop(r.st, m, i + 1, for_real,
                                       n + (IF for_real THEN 1 ELSE 0), drySt, t)))

\* The commit hook runs whenever commit is asked for.
bus_unit_set_properties_commit_always(st, m) ==
    Then(set_properties_loop(st, m, 1, FALSE, 0, st, <<>>), LAMBDA l :
         IF l.r < 0 THEN l
         ELSE IF m.commit
         THEN SetResult(l.r, l.err, vtable_bus_commit_properties(l.st), l.dry, l.trace)
         ELSE l)

bus_unit_set_properties(st, m) ==
    Then(set_properties_loop(st, m, 1, FALSE, 0, st, <<>>), LAMBDA l :
         IF l.r < 0 THEN l
         ELSE IF m.commit /\ l.r > 0
         THEN SetResult(l.r, l.err, vtable_bus_commit_properties(l.st), l.dry, l.trace)
         ELSE l)

(***************************************************************************)
(* SpecProps: a client builds the property array of one message, and       *)
(* bus_unit_set_properties handles it on a unit that is a transient stub   *)
(* being set up, a stub that is not transient, or a loaded unit.           *)
(***************************************************************************)
SystemSlice == <<"system", ".slice">>

WriteModes ==
    { [flags |-> {}, commit |-> FALSE],
      [flags |-> {"RUNTIME"}, commit |-> TRUE],
      [flags |-> {"RUNTIME"}, commit |-> FALSE],
      [flags |-> {"PERSISTENT"}, commit |-> TRUE] }

Faults == { {}, {"unit_add_dependency_by_name"}, {"unit_set_slice"},
            {"unit_require_mounts_for"}, {"manager_load_unit_prepare"} }

\* A transient unit under construction that an earlier call has given two
\* conditions and an assert.
UnitWithConditions ==
    bus_unit_set_properties([u |-> FreshUnit, units |-> {SystemSlice}],
                            [entries |-> <<6, 12>>, flags |-> {"RUNTIME"}, commit |-> FALSE,
                             faults |-> {}]).st.u

PropsInit ==
    /\ \/ \E c \in { [load_state |-> "stub", transient |-> TRUE, type |-> "service"],
                     [load_state |-> "stub", transient |-> FALSE, type |-> "service"],
                     [load_state |-> "loaded", transient |-> TRUE, type |-> "service"],
                     [load_state |-> "stub", transient |-> TRUE, type |-> "device"] } :
             u = [FreshUnit EXCEPT !.load_state = c.load_state, !.transient = c.transient,
                                   !.type = c.type]
       \/ u = UnitWithConditions
    /\ units = {SystemSlice}
    /\ signals = <<>>
    /\ jobs = <<>>
    /\ kills = <<>>
    /\ attached = <<>>
    /\ call = NoCall
    /\ msg = <<>>
    /\ pre = Snapshot
    /\ dry = Snapshot

AppendEntry ==
    /\ call = NoCall
    /\ Len(msg) < MaxBatch
    /\ \E i \in EntryIds : msg' = Append(msg, i)
    /\ UNCHANGED <<u, units, signals, jobs, kills, attached, call, pre, dry>>

SetProperties ==
    /\ call = NoCall
    /\ \E w \in WriteModes, faults \in Faults :
       \E res \in {bus_unit_set_properties(Snapshot,
                        [entries |-> msg, flags |-> w.flags, commit |-> w.commit,
                         faults |-> faults])} :
              /\ u' = res.st.u
              /\ units' = res.st.units
              /\ dry' = res.dry
              /\ call' = [method |-> "bus_unit_set_properties", status |-> "done",
                          entries |-> msg, flags |-> w.flags, commit |-> w.commit,
                          faults |-> faults, r |-> res.r, err |-> res.err,
                          trace |-> res.trace]
    /\ pre' = Snapshot
    /\ UNCHANGED <<signals, jobs, kills, attached, msg>>

PropsNext == AppendEntry \/ SetProperties

SpecProps == PropsInit /\ [][PropsNext]_vars

SetDone == call.method = "bus_unit_set_properties"

\* An entry no unit accepts: an unknown property name, a value of the wrong
\* type, an unknown or parameterless condition, a relative path, a
\* documentation URL of no known scheme, a slice that is no plain slice name,
\* a dependency on something that is no unit name.
EntryIsInvalid(e) ==
    CASE e.name = "Description" -> e.sig # "s"
      [] e.name \in {"Conditions", "Asserts"} ->
            \E i \in DOMAIN e.v :
               \/ e.v[i].type \notin {"ConditionPathExists", "ConditionKernelCommandLine",
                                      "ConditionNull", "AssertPathExists",
                                      "AssertKernelCommandLine", "AssertNull"}
               \/ /\ e.v[i].type \notin {"ConditionNull", "AssertNull"}
                  /\ \/ e.v[i].param = <<>>
                     \/ /\ e.v[i].type \in {"ConditionPathExists", "AssertPathExists"}
                        /\ e.v[i].param[1] # "/"
      [] e.name = "Documentation" ->
            \E i \in DOMAIN e.v : ~documentation_url_is_valid(e.v[i])
      [] e.name = "Slice" ->
            ~unit_name_is_valid(e.v, {"PLAIN"}) \/ e.v[Len(e.v)] # ".slice"
      [] e.name = "RequiresMountsFor" -> \E i \in DOMAIN e.v : e.v[i][1] # "/"
      [] e.name \in {"Requires", "Wants", "After"} ->
            \E i \in DOMAIN e.v : ~unit_name_is_valid(e.v[i], {"PLAIN", "INSTANCE"})
      [] e.name \in {"SubProperty", "RefuseManualStart", "JobTimeoutUSec",
                     "JobRunningTimeoutUSec", "AddRef"} -> FALSE
      [] OTHER -> TRUE

\* C1: a SetProperties call, runtime or persistent, whose batch holds an invalid
\* entry at any position returns an error and leaves the unit exactly as it was
\* before the call.
C1_ValidateBeforeCommit ==
    (SetDone /\ \E i \in DOMAIN call.entries : EntryIsInvalid(EntryTable[call.entries[i]]))
        => (call.r < 0 /\ u = pre.u)

\* C1 witness: a persistent two-entry call on a transient stub whose first entry
\* is a valid description and whose second entry is invalid has been refused.
C1_Witness ==
    /\ SetDone
    /\ call.flags = {"PERSISTENT"}
    /\ Len(call.entries) = 2
    /\ pre.u.transient /\ pre.u.load_state = "stub" /\ pre.u.type = "service"
    /\ ~EntryIsInvalid(EntryTable[call.entries[1]])
    /\ EntryTable[call.entries[1]].name = "Description"
    /\ EntryIsInvalid(EntryTable[call.entries[2]])
    /\ call.r < 0

\* C2: the first pass of SetProperties changes nothing: at its end the unit and
\* the manager's set of units are what they were when the call came in.
C2_DryRunMutatesNothing == SetDone => dry = pre

(***************************************************************************)
(* The bus methods of the unit that ask for authorization (lines 440-719). *)
(* A handler works on st: the unit, the manager's units, job queue and     *)
(* polkit registry entry of the message, the kills made, the replies sent  *)
(* for the message, and the outcome of the authorization query it made.    *)
(***************************************************************************)
StartMethods == {"Start", "Stop", "Reload", "Restart", "TryRestart",
                 "ReloadOrRestart", "ReloadOrTryRestart"}

AuthorizedMethods == StartMethods \cup {"Kill", "ResetFailed", "SetProperties", "Ref"}

Methods == AuthorizedMethods \cup {"Unref"}

\* Lines 533-559: the job type and reload_if_possible each method passes on.
MethodJobType(method) ==
    CASE method = "Start" -> "start"
      [] method = "Stop" -> "stop"
      [] method = "Reload" -> "reload"
      [] method \in {"Restart", "ReloadOrRestart"} -> "restart"
      [] method \in {"TryRestart", "ReloadOrTryRestart"} -> "try-restart"

MethodReloadIfPossible(method) == method \in {"ReloadOrRestart", "ReloadOrTryRestart"}

job_mode_from_string(smode) ==
    IF smode \in {"fail", "replace", "isolate"} THEN smode ELSE "_INVALID"

kill_who_from_string(swho) ==
    IF swho \in {"main", "control", "all"} THEN swho ELSE "_INVALID"

SIGNAL_VALID(signo) == signo > 0 /\ signo < 65

mac_selinux_unit_access_check(st, m) ==
    IF "mac_selinux_unit_access_check" \in m.faults THEN PR(-1, "AccessDenied", st)
    ELSE PR(0, "", st)

\* bus_verify_polkit_async(): 1 for a caller holding the capability or a query
\* answered with yes, a negative value for a query answered with no, and 0
\* while the query, registered for the message, is not answered yet.
bus_verify_polkit_async(st, m) ==
    IF "bus_verify_polkit_async" \in m.faults
    THEN PR(-1, "Errno", [st EXCEPT !.verify = "failed"])
    ELSE IF m.sender.privileged THEN PR(1, "", [st EXCEPT !.verify = "authorized"])
    ELSE CASE st.registry \in {"unasked", "pending"} ->
                 PR(0, "", [st EXCEPT !.registry = "pending", !.verify = "pending"])
           [] st.registry = "granted" -> PR(1, "", [st EXCEPT !.verify = "authorized"])
           [] st.registry = "denied" ->
                 PR(-1, "AccessDenied", [st EXCEPT !.verify = "failed"])

bus_verify_manage_units_async_full(st, m, verb) == bus_verify_polkit_async(st, m)

sd_bus_reply_method_return(st, body) ==
    PR(1, "", [st EXCEPT !.replies = Append(@, body)])

unit_can_reload(un) == un.can_reload

job_type_collapse(t, un) ==
    IF t = "reload-or-start"
    THEN IF UNIT_IS_INACTIVE_OR_FAILED(unit_active_state(un)) THEN "start" ELSE "reload"
    ELSE t

manager_add_job(st, type, mode, m) ==
    IF "manager_add_job" \in m.faults THEN PR(-1, "Errno", st)
    ELSE PR(0, "", [st EXCEPT !.jobs = Append(@, [type |-> type, unit |-> st.u.id,
                                                  mode |-> mode, tracked |-> <<>>])])

bus_job_track_sender(st, m) ==
    IF "bus_job_track_sender" \in m.faults THEN PR(-1, "Errno", st)
    ELSE PR(0, "", [st EXCEPT !.jobs[Len(st.jobs)].tracked = Append(@, m.sender.name)])

\* The downgrade is made whether or not the unit can reload.
queue_job_type_any_unit(un, type, reload_if_possible) ==
    IF reload_if_possible
    THEN IF type = "restart" THEN "reload-or-start"
         ELSE IF type = "try-restart" THEN "try-reload"
         ELSE type
    ELSE type

\* Lines 1388-1393: the type after the reload-if-possible downgrade.
queue_job_type(un, type, reload_if_possible) ==
    IF reload_if_possible /\ unit_can_reload(un)
    THEN IF type = "restart" THEN "reload-or-start"
         ELSE IF type = "try-restart" THEN "try-reload"
         ELSE type
    ELSE type

\* The requested type is checked against the refuse-manual flags, and the
\* type is downgraded after that.
bus_unit_queue_job_refuse_first(st, m, jtype, mode, reload_if_possible) ==
    Then(mac_selinux_unit_access_check(st, m), LAMBDA a :
    IF a.r < 0 THEN a
    ELSE IF /\ jtype = "stop"
            /\ st.u.load_state \in {"not-found", "error"}
            /\ unit_active_state(st.u) = "inactive"
         THEN PR(-1, "NoSuchUnit", st)
         ELSE IF \/ jtype = "start" /\ st.u.refuse_manual_start
                 \/ jtype = "stop" /\ st.u.refuse_manual_stop
                 \/ /\ jtype \in {"restart", "try-restart"}
                    /\ (st.u.refuse_manual_start \/ st.u.refuse_manual_stop)
         THEN PR(-1, "OnlyByDependency", st)
         ELSE Then(manager_add_job(st, queue_job_type(st.u, jtype, reload_if_possible),
                                   mode, m), LAMBDA j :
              IF j.r < 0 THEN j
              ELSE Then(bus_job_track_sender(j.st, m), LAMBDA t :
                   IF t.r < 0 THEN t
                   ELSE sd_bus_reply_method_return(t.st, "job"))))

\* A restart is refused for refuse-manual-start only.
bus_unit_queue_job_restart_start_only(st, m, jtype, mode, reload_if_possible) ==
    Then(mac_selinux_unit_access_check(st, m), LAMBDA a :
    IF a.r < 0 THEN a
    ELSE Then(queue_job_type(st.u, jtype, reload_if_possible), LAMBDA type :
         IF /\ type = "stop"
            /\ st.u.load_state \in {"not-found", "error"}
            /\ unit_active_state(st.u) = "inactive"
         THEN PR(-1, "NoSuchUnit", st)
         ELSE IF \/ type = "start" /\ st.u.refuse_manual_start
                 \/ type = "stop" /\ st.u.refuse_manual_stop
                 \/ type \in {"restart", "try-restart"} /\ st.u.refuse_manual_start
                 \/ /\ type = "reload-or-start"
                    /\ job_type_collapse(type, st.u) = "start"
                    /\ st.u.refuse_manual_start
         THEN PR(-1, "OnlyByDependency", st)
         ELSE Then(manager_add_job(st, type, mode, m), LAMBDA j :
              IF j.r < 0 THEN j
              ELSE Then(bus_job_track_sender(j.st, m), LAMBDA t :
                   IF t.r < 0 THEN t
                   ELSE sd_bus_reply_method_return(t.st, "job")))))

\* A stop of a unit that is not there is refused also while the unit runs.
bus_unit_queue_job_no_active_check(st, m, jtype, mode, reload_if_possible) ==
    Then(mac_selinux_unit_access_check(st, m), LAMBDA a :
    IF a.r < 0 THEN a
    ELSE Then(queue_job_type(st.u, jtype, reload_if_possible), LAMBDA type :
         IF type = "stop" /\ st.u.load_state \in {"not-found", "error"}
         THEN PR(-1, "NoSuchUnit", st)
         ELSE IF \/ type = "start" /\ st.u.refuse_manual_start
                 \/ type = "stop" /\ st.u.refuse_manual_stop
                 \/ /\ type \in {"restart", "try-restart"}
                    /\ (st.u.refuse_manual_start \/ st.u.refuse_manual_stop)
                 \/ /\ type = "reload-or-start"
                    /\ job_type_collapse(type, st.u) = "start"
                    /\ st.u.refuse_manual_start
         THEN PR(-1, "OnlyByDependency", st)
         ELSE Then(manager_add_job(st, type, mode, m), LAMBDA j :
              IF j.r < 0 THEN j
              ELSE Then(bus_job_track_sender(j.st, m), LAMBDA t :
                   IF t.r < 0 THEN t
                   ELSE sd_bus_reply_method_return(t.st, "job")))))

bus_unit_queue_job(st, m, jtype, mode, reload_if_possible) ==
    Then(mac_selinux_unit_access_check(st, m), LAMBDA a :
    IF a.r < 0 THEN a
    ELSE Then(queue_job_type(st.u, jtype, reload_if_possible), LAMBDA type :
         IF /\ type = "stop"
            /\ st.u.load_state \in {"not-found", "error"}
            /\ unit_active_state(st.u) = "inactive"
         THEN PR(-1, "NoSuchUnit", st)
         ELSE IF \/ type = "start" /\ st.u.refuse_manual_start
                 \/ type = "stop" /\ st.u.refuse_manual_stop
                 \/ /\ type \in {"restart", "try-restart"}
                    /\ (st.u.refuse_manual_start \/ st.u.refuse_manual_stop)
                 \/ /\ type = "reload-or-start"
                    /\ job_type_collapse(type, st.u) = "start"
                    /\ st.u.refuse_manual_start
         THEN PR(-1, "OnlyByDependency", st)
         ELSE Then(manager_add_job(st, type, mode, m), LAMBDA j :
              IF j.r < 0 THEN j
              ELSE Then(bus_job_track_sender(j.st, m), LAMBDA t :
                   IF t.r < 0 THEN t
                   ELSE sd_bus_reply_method_return(t.st, "job")))))

\* The job is submitted before authorization is asked for.
bus_unit_method_start_generic_job_before_auth(st, m, job_type, reload_if_possible) ==
    Then(mac_selinux_unit_access_check(st, m), LAMBDA a :
    IF a.r < 0 THEN a
    ELSE Then(job_mode_from_string(m.smode), LAMBDA mode :
         IF mode = "_INVALID" THEN PR(-1, "InvalidArgs", st)
         ELSE Then(manager_add_job(st, job_type, mode, m), LAMBDA j :
              IF j.r < 0 THEN j
              ELSE Then(bus_verify_manage_units_async_full(j.st, m, job_type), LAMBDA v :
                   IF v.r < 0 THEN v
                   ELSE IF v.r = 0 THEN PR(1, "", v.st)
                   ELSE sd_bus_reply_method_return(v.st, "job")))))

\* The mode is looked at after authorization has been asked for.
bus_unit_method_start_generic_mode_after_auth(st, m, job_type, reload_if_possible) ==
    Then(mac_selinux_unit_access_check(st, m), LAMBDA a :
    IF a.r < 0 THEN a
    ELSE Then(bus_verify_manage_units_async_full(st, m, job_type), LAMBDA v :
         IF v.r < 0 THEN v
         ELSE IF v.r = 0 THEN PR(1, "", v.st)
         ELSE Then(job_mode_from_string(m.smode), LAMBDA mode :
              IF mode = "_INVALID" THEN PR(-1, "InvalidArgs", v.st)
              ELSE bus_unit_queue_job(v.st, m, job_type, mode, reload_if_possible))))

bus_unit_method_start_generic(st, m, job_type, reload_if_possible) ==
    Then(mac_selinux_unit_access_check(st, m), LAMBDA a :
    IF a.r < 0 THEN a
    ELSE Then(job_mode_from_string(m.smode), LAMBDA mode :
         IF mode = "_INVALID" THEN PR(-1, "InvalidArgs", st)
         ELSE Then(bus_verify_manage_units_async_full(st, m, job_type), LAMBDA v :
              IF v.r < 0 THEN v
              ELSE IF v.r = 0 THEN PR(1, "", v.st)
              ELSE bus_unit_queue_job(v.st, m, job_type, mode, reload_if_possible))))

unit_kill(st, who, signo, m) ==
    IF "unit_kill" \in m.faults THEN PR(-1, "Errno", st)
    ELSE PR(0, "", [st EXCEPT !.kills = Append(@, [who |-> who, signo |-> signo])])

\* The signal was sent although the query was not answered.
bus_unit_method_kill_ignore_pending(st, m) ==
    Then(mac_selinux_unit_access_check(st, m), LAMBDA a :
    IF a.r < 0 THEN a
    ELSE Then(IF m.swho = "" THEN "all" ELSE kill_who_from_string(m.swho), LAMBDA who :
         IF who = "_INVALID" THEN PR(-1, "InvalidArgs", st)
         ELSE IF ~SIGNAL_VALID(m.signo) THEN PR(-1, "InvalidArgs", st)
         ELSE Then(bus_verify_manage_units_async_full(st, m, "kill"), LAMBDA v :
              IF v.r < 0 THEN v
              ELSE Then(unit_kill(v.st, who, m.signo, m), LAMBDA k :
                   IF k.r < 0 THEN k
                   ELSE IF v.r = 0 THEN PR(1, "", k.st)
                   ELSE sd_bus_reply_method_return(k.st, "")))))

\* The signal number is passed on as it came.
bus_unit_method_kill_signal_unchecked(st, m) ==
    Then(mac_selinux_unit_access_check(st, m), LAMBDA a :
    IF a.r < 0 THEN a
    ELSE Then(IF m.swho = "" THEN "all" ELSE kill_who_from_string(m.swho), LAMBDA who :
         IF who = "_INVALID" THEN PR(-1, "InvalidArgs", st)
         ELSE Then(bus_verify_manage_units_async_full(st, m, "kill"), LAMBDA v :
              IF v.r < 0 THEN v
              ELSE IF v.r = 0 THEN PR(1, "", v.st)
              ELSE Then(unit_kill(v.st, who, m.signo, m), LAMBDA k :
                   IF k.r < 0 THEN k
                   ELSE sd_bus_reply_method_return(k.st, "")))))

bus_unit_method_kill(st, m) ==
    Then(mac_selinux_unit_access_check(st, m), LAMBDA a :
    IF a.r < 0 THEN a
    ELSE Then(IF m.swho = "" THEN "all" ELSE kill_who_from_string(m.swho), LAMBDA who :
         IF who = "_INVALID" THEN PR(-1, "InvalidArgs", st)
         ELSE IF ~SIGNAL_VALID(m.signo) THEN PR(-1, "InvalidArgs", st)
         ELSE Then(bus_verify_manage_units_async_full(st, m, "kill"), LAMBDA v :
              IF v.r < 0 THEN v
              ELSE IF v.r = 0 THEN PR(1, "", v.st)
              ELSE Then(unit_kill(v.st, who, m.signo, m), LAMBDA k :
                   IF k.r < 0 THEN k
                   ELSE sd_bus_reply_method_return(k.st, "")))))

unit_reset_failed(st) ==
    [st EXCEPT !.u.failed = FALSE,
               !.u.active_state = IF @ = "failed" THEN "inactive" ELSE @]

bus_unit_method_reset_failed(st, m) ==
    Then(mac_selinux_unit_access_check(st, m), LAMBDA a :
    IF a.r < 0 THEN a
    ELSE Then(bus_verify_manage_units_async_full(st, m, "reset-failed"), LAMBDA v :
         IF v.r < 0 THEN v
         ELSE IF v.r = 0 THEN PR(1, "", v.st)
         ELSE sd_bus_reply_method_return(unit_reset_failed(v.st), "")))

bus_unit_method_set_properties(st, m) ==
    Then(mac_selinux_unit_access_check(st, m), LAMBDA a :
    IF a.r < 0 THEN a
    ELSE Then(bus_verify_manage_units_async_full(st, m, "set-property"), LAMBDA v :
         IF v.r < 0 THEN v
         ELSE IF v.r = 0 THEN PR(1, "", v.st)
         ELSE Then(bus_unit_set_properties(v.st,
                       [entries |-> m.entries,
                        flags |-> IF m.runtime THEN {"RUNTIME"} ELSE {"PERSISTENT"},
                        commit |-> TRUE, faults |-> {}]), LAMBDA p :
              IF p.r < 0 THEN PR(p.r, p.err, p.st)
              ELSE sd_bus_reply_method_return(p.st, ""))))

unit_add_to_gc_queue(un) == [un EXCEPT !.in_gc_queue = TRUE]

\* The unit is queued for GC and keeps its peer-watch object.
bus_unit_track_handler_keep_track(un) == unit_add_to_gc_queue(un)

\* Lines 1886-1896: called by the peer-watch object when its last peer is gone.
bus_unit_track_handler(un) == unit_add_to_gc_queue([un EXCEPT !.bus_track = NoTrack])

\* Lines 1898-1917.
bus_unit_allocate_bus_track(st, m) ==
    IF st.u.bus_track.allocated THEN PR(0, "", st)
    ELSE IF "sd_bus_track_new" \in m.faults THEN PR(-1, "Errno", st)
    ELSE IF "sd_bus_track_set_recursive" \in m.faults THEN PR(-1, "Errno", st)
    ELSE PR(0, "", [st EXCEPT !.u.bus_track = [allocated |-> TRUE, names |-> <<>>]])

sd_bus_track_add_sender(st, m) ==
    IF "sd_bus_track_add_sender" \in m.faults THEN PR(-1, "Errno", st)
    ELSE PR(1, "", [st EXCEPT !.u.bus_track.names = Append(@, m.sender.name)])

RECURSIVE RemoveFirst(_, _)
RemoveFirst(names, name) ==
    IF names = <<>> THEN <<>>
    ELSE IF Head(names) = name THEN Tail(names)
    ELSE <<Head(names)>> \o RemoveFirst(Tail(names), name)

\* A peer the peer-watch object does not hold is refused with an error of the
\* object: with EUNATCH, or with another error.
sd_bus_track_remove_sender(st, m) ==
    IF \A i \in DOMAIN st.u.bus_track.names : st.u.bus_track.names[i] # m.sender.name
    THEN IF "sd_bus_track_remove_sender" \in m.faults THEN PR(-1, "Errno", st)
         ELSE PR(-2, "EUNATCH", st)
    ELSE PR(1, "", [st EXCEPT !.u.bus_track.names = RemoveFirst(@, m.sender.name)])

\* The sender is added to whatever peer-watch object the unit has.
bus_unit_track_add_sender_no_allocate(st, m) == sd_bus_track_add_sender(st, m)

bus_unit_track_add_sender(st, m) ==
    Then(bus_unit_allocate_bus_track(st, m), LAMBDA t :
         IF t.r < 0 THEN t ELSE sd_bus_track_add_sender(t.st, m))

\* The peer-watch object is allocated as it is for a new reference.
bus_unit_track_remove_sender_allocating(st, m) ==
    Then(bus_unit_allocate_bus_track(st, m), LAMBDA t :
         IF t.r < 0 THEN t ELSE sd_bus_track_remove_sender(t.st, m))

bus_unit_track_remove_sender(st, m) ==
    IF ~st.u.bus_track.allocated THEN PR(-2, "EUNATCH", st)
    ELSE sd_bus_track_remove_sender(st, m)

bus_unit_method_ref(st, m) ==
    Then(mac_selinux_unit_access_check(st, m), LAMBDA a :
    IF a.r < 0 THEN a
    ELSE Then(bus_verify_manage_units_async_full(st, m, "ref"), LAMBDA v :
         IF v.r < 0 THEN v
         ELSE IF v.r = 0 THEN PR(1, "", v.st)
         ELSE Then(bus_unit_track_add_sender(v.st, m), LAMBDA t :
              IF t.r < 0 THEN t
              ELSE sd_bus_reply_method_return(t.st, ""))))

\* Every error of the peer-watch object is answered with NotReferenced.
bus_unit_method_unref_any_error(st, m) ==
    Then(bus_unit_track_remove_sender(st, m), LAMBDA t :
         IF t.r < 0 THEN PR(-1, "NotReferenced", t.st)
         ELSE sd_bus_reply_method_return(t.st, ""))

bus_unit_method_unref(st, m) ==
    Then(bus_unit_track_remove_sender(st, m), LAMBDA t :
         IF t.err = "EUNATCH" THEN PR(-1, "NotReferenced", t.st)
         ELSE IF t.r < 0 THEN t
         ELSE sd_bus_reply_method_return(t.st, ""))

\* Every message starts with the name of the unit.
sd_bus_error_setf_naming_unit(m, err, un) ==
    <<"Unit ", un.id, ": ">> \o
    (CASE m.method \in StartMethods /\ err = "InvalidArgs" ->
             <<"Job mode ", m.smode, " invalid">>
       [] m.method = "Kill" /\ err = "InvalidArgs" ->
             IF m.swho # "" /\ kill_who_from_string(m.swho) = "_INVALID"
             THEN <<"Invalid who argument ", m.swho>>
             ELSE <<"Signal number out of range.">>
       [] OTHER -> <<>>)

\* The text the handlers give sd_bus_error_setf() for the errors they raise
\* themselves (lines 508, 584, 588, 714, 1398, 1404), as the pieces of the
\* format string and the arguments put into it; empty for an error that a
\* callee has set.
sd_bus_error_setf(m, err, un) ==
    CASE m.method \in StartMethods /\ err = "InvalidArgs" ->
            <<"Job mode ", m.smode, " invalid">>
      [] m.method \in StartMethods /\ err = "NoSuchUnit" ->
            <<"Unit ", un.id, " not loaded.">>
      [] m.method \in StartMethods /\ err = "OnlyByDependency" ->
            <<"Operation refused, unit ", un.id,
              " may be requested by dependency only (it is configured to refuse manual start/stop).">>
      [] m.method = "Kill" /\ err = "InvalidArgs" ->
            IF m.swho # "" /\ kill_who_from_string(m.swho) = "_INVALID"
            THEN <<"Invalid who argument ", m.swho>>
            ELSE <<"Signal number out of range.">>
      [] m.method = "Unref" /\ err = "NotReferenced" ->
            <<"Unit has not been referenced yet.">>
      [] OTHER -> <<>>

\* The vtable of the Unit interface: the handler of each method.
bus_unit_vtable(st, m) ==
    CASE m.method \in StartMethods ->
            bus_unit_method_start_generic(st, m, MethodJobType(m.method),
                                          MethodReloadIfPossible(m.method))
      [] m.method = "Kill" -> bus_unit_method_kill(st, m)
      [] m.method = "ResetFailed" -> bus_unit_method_reset_failed(st, m)
      [] m.method = "SetProperties" -> bus_unit_method_set_properties(st, m)
      [] m.method = "Ref" -> bus_unit_method_ref(st, m)
      [] m.method = "Unref" -> bus_unit_method_unref(st, m)

(***************************************************************************)
(* Spec: one method call on the unit, from its arrival to its reply.  The  *)
(* bus hands the message to its handler; while the handler answers that    *)
(* authorization is outstanding the message is handed to it again, also    *)
(* before polkit has answered.                                             *)
(***************************************************************************)
NoArgs == [smode |-> "", swho |-> "", signo |-> 0, runtime |-> FALSE, entries |-> <<>>]

MethodArgs(method) ==
    CASE method \in StartMethods ->
            {[NoArgs EXCEPT !.smode = sm] : sm \in {"replace", "bogus"}}
      [] method = "Kill" ->
            {[NoArgs EXCEPT !.swho = w, !.signo = sg] :
                w \in {"", "main", "bogus"}, sg \in {15, 0, 65}}
      [] method = "SetProperties" ->
            {[NoArgs EXCEPT !.runtime = rt, !.entries = es] :
                rt \in BOOLEAN, es \in SeqsUpTo({1, 24}, MaxBatch)}
      [] OTHER -> {NoArgs}

BusSenders == {[name |-> ":1.7", privileged |-> FALSE],
               [name |-> ":1.1", privileged |-> TRUE]}

BusFaults == { {}, {"mac_selinux_unit_access_check"}, {"bus_verify_polkit_async"},
               {"manager_add_job"}, {"bus_job_track_sender"}, {"unit_kill"},
               {"sd_bus_track_new"}, {"sd_bus_track_add_sender"},
               {"sd_bus_track_remove_sender"} }

HandlerState ==
    [u |-> u, units |-> units, jobs |-> jobs, kills |-> kills,
     registry |-> call.auth, verify |-> "unreached", replies |-> call.replies]

Init ==
    /\ \E ls \in {"loaded", "not-found", "error"}, as \in {"active", "inactive", "failed"},
          cr \in BOOLEAN, rs \in BOOLEAN, rp \in BOOLEAN,
          bt \in {NoTrack} \cup {[allocated |-> TRUE, names |-> ns] :
                                     ns \in {<<":1.7">>, <<":1.7", ":1.1">>,
                                            <<":1.1", ":1.1">>}} :
          u = [FreshUnit EXCEPT !.load_state = ls, !.transient = FALSE,
                                !.active_state = as, !.failed = (as = "failed"),
                                !.can_reload = cr, !.refuse_manual_start = rs,
                                !.refuse_manual_stop = rp, !.bus_track = bt]
    /\ units = {SystemSlice}
    /\ signals = <<>>
    /\ jobs = <<>>
    /\ kills = <<>>
    /\ attached = <<>>
    /\ call = NoCall
    /\ msg = <<>>
    /\ pre = Snapshot
    /\ dry = Snapshot

\* A method call arrives on the bus.
Receive ==
    /\ call = NoCall
    /\ \E method \in Methods, sender \in BusSenders, faults \in BusFaults :
       \E args \in MethodArgs(method) :
          /\ call' = [method |-> method, status |-> "queued", sender |-> sender,
                      faults |-> faults, smode |-> args.smode, swho |-> args.swho,
                      signo |-> args.signo, runtime |-> args.runtime,
                      entries |-> args.entries, auth |-> "unasked",
                      verify |-> "unreached", replies |-> <<>>, dispatches |-> 0,
                      r |-> 0, err |-> ""]
          /\ msg' = args.entries
    /\ UNCHANGED <<u, units, signals, jobs, kills, attached, pre, dry>>

\* The message is handed to the handler of its method.
Dispatch ==
    /\ call.status \in {"queued", "pending"}
    /\ call.auth = "pending" => call.dispatches < MaxDeliveries
    /\ \E res \in {bus_unit_vtable(HandlerState, call)} :
          /\ u' = res.st.u
          /\ units' = res.st.units
          /\ jobs' = res.st.jobs
          /\ kills' = res.st.kills
          /\ call' = [call EXCEPT
                         !.auth = res.st.registry,
                         !.verify = res.st.verify,
                         !.replies = res.st.replies,
                         !.dispatches = @ + 1,
                         !.r = res.r,
                         !.err = res.err,
                         !.status = IF res.r < 0 THEN "error"
                                    ELSE IF res.st.replies # call.replies THEN "replied"
                                    ELSE "pending"]
    /\ pre' = Snapshot
    /\ UNCHANGED <<signals, attached, msg, dry>>

\* polkit answers the query registered for the message.
PolkitReply ==
    /\ call.status = "pending"
    /\ call.auth = "pending"
    /\ \E answer \in {"granted", "denied"} : call' = [call EXCEPT !.auth = answer]
    /\ UNCHANGED <<u, units, signals, jobs, kills, attached, msg, pre, dry>>

\* A peer referencing the unit leaves the bus: the peer-watch object drops
\* every reference the peer held.  Peers leave between the deliveries of a
\* call, not while its authorization is outstanding.
PeerLeaves ==
    /\ call = NoCall \/ call.status \in {"replied", "error"}
    /\ u.bus_track.allocated
    /\ \E i \in DOMAIN u.bus_track.names :
          u' = [u EXCEPT !.bus_track.names =
                            SelectSeq(@, LAMBDA n : n # u.bus_track.names[i])]
    /\ UNCHANGED <<units, signals, jobs, kills, attached, call, msg, pre, dry>>

\* The peer-watch object, left without peers by a peer that went or that gave
\* its reference back, calls its handler.
TrackDispatch ==
    /\ u.bus_track.allocated
    /\ u.bus_track.names = <<>>
    /\ u' = bus_unit_track_handler(u)
    /\ UNCHANGED <<units, signals, jobs, kills, attached, call, msg, pre, dry>>

Next == Receive \/ Dispatch \/ PolkitReply \/ PeerLeaves \/ TrackDispatch

Spec == Init /\ [][Next]_vars

InCall == call.method \in Methods

\* C3: a handler whose authorization query is answered with "pending" returns
\* the pending status, sends no reply and leaves the unit, the manager's units,
\* the job queue and the kills made as they were: no job submitted, no process
\* signalled, failure state not reset, no property written, no peer added.
C3_PendingChangesNothing ==
    [][ (InCall /\ call'.dispatches = call.dispatches + 1 /\ call'.verify = "pending")
            => /\ call'.r = 1
               /\ call'.status = "pending"
               /\ call'.replies = call.replies
               /\ u' = u
               /\ units' = units
               /\ jobs' = jobs
               /\ kills' = kills ]_vars

\* C3 witness: a Kill from an unprivileged caller, well-formed, has been handed
\* to its handler twice and is still waiting for polkit.
C3_Witness ==
    /\ InCall
    /\ call.method = "Kill"
    /\ call.verify = "pending"
    /\ call.dispatches = 2
    /\ call.status = "pending"

\* C20: Unref on a unit without peer-watch object, never referenced or with all
\* references gone, fails with NotReferenced, is not answered otherwise, and
\* leaves the peer-watch object and the GC-queue membership of the unit alone.
C20_UnrefWithoutRef ==
    (InCall /\ call.method = "Unref" /\ call.dispatches = 1 /\ ~pre.u.bus_track.allocated)
        => /\ call.r < 0
           /\ call.err = "NotReferenced"
           /\ call.replies = <<>>
           /\ u.bus_track = pre.u.bus_track
           /\ u.in_gc_queue = pre.u.in_gc_queue
           /\ u = pre.u

\* C20 witness: the peers of a referenced unit left, the unit was queued for GC,
\* and an Unref that came then was refused.
C20_Witness ==
    /\ InCall
    /\ call.method = "Unref"
    /\ call.dispatches = 1
    /\ u.in_gc_queue
    /\ ~u.bus_track.allocated
    /\ call.err = "NotReferenced"

\* C21: the unit is queued for GC by a step exactly when that step releases
\* its peer-watch object, which happens only when the object has no peer
\* left (with a peer left the unit is not queued); the step changes nothing
\* else of the unit, which stays the unit it was, and with the object gone
\* the handler cannot be called again for it.
C21_LastPeerGoneQueuesForGC ==
    [][ /\ (~u.in_gc_queue /\ u'.in_gc_queue)
            => /\ u.bus_track.allocated
               /\ u.bus_track.names = <<>>
               /\ u' = [u EXCEPT !.bus_track = NoTrack, !.in_gc_queue = TRUE]
        /\ (u.bus_track.allocated /\ ~u'.bus_track.allocated)
            => u.bus_track.names = <<>> /\ u'.in_gc_queue
        /\ u'.id = u.id ]_vars

\* C21 witness: the one peer referencing the unit gave its reference back with
\* Unref, and the unit was queued for GC with its peer-watch object released.
C21_Witness ==
    /\ InCall
    /\ call.method = "Unref"
    /\ call.status = "replied"
    /\ u.in_gc_queue
    /\ u.bus_track = NoTrack

\* The references the peer holds in the peer-watch object.
References(track, peer) == Cardinality({i \in DOMAIN track.names : track.names[i] = peer})

\* The step answers a call of the method, made by the peer, with success.
Answers(method, peer) ==
    /\ call.method = method
    /\ call.sender.name = peer
    /\ call.status \in {"queued", "pending"}
    /\ call'.status = "replied"

\* C38: the peer-watch object exists whenever a peer holds a reference. It is
\* allocated only by the handler of Ref, which leaves it holding the sender
\* once (holding nobody when the sender could not be added), also on a unit
\* whose earlier object the last-peer handler released;
\* a Ref that succeeds adds one reference of the sender and an Unref that
\* succeeds takes one away, so that the sender stays tracked while it has
\* references left; otherwise the references of a peer change only by its
\* disconnecting, which takes them all. The object is released only when it
\* holds no peer, and on a unit without it Unref fails with NotReferenced.
C38_PeerWatchLifecycle ==
    /\ [](u.bus_track.names # <<>> => u.bus_track.allocated)
    /\ [][ /\ (~u.bus_track.allocated /\ u'.bus_track.allocated)
               => /\ call.method = "Ref"
                  /\ call'.dispatches = call.dispatches + 1
                  /\ u'.bus_track.names = IF call'.status = "replied"
                                          THEN <<call.sender.name>> ELSE <<>>
           /\ \A peer \in {":1.1", ":1.7"} :
                 /\ Answers("Ref", peer)
                       => References(u'.bus_track, peer) = References(u.bus_track, peer) + 1
                 /\ Answers("Unref", peer)
                       => /\ References(u.bus_track, peer) > 0
                          /\ References(u'.bus_track, peer) = References(u.bus_track, peer) - 1
                          /\ u'.bus_track.allocated
                 /\ (/\ References(u'.bus_track, peer) # References(u.bus_track, peer)
                     /\ ~Answers("Ref", peer)
                     /\ ~Answers("Unref", peer))
                       => References(u'.bus_track, peer) = 0 /\ call' = call
           /\ (u.bus_track.allocated /\ ~u'.bus_track.allocated)
               => u.bus_track.names = <<>> /\ call' = call
           /\ (/\ call.method = "Unref"
               /\ call'.dispatches = call.dispatches + 1
               /\ ~u.bus_track.allocated)
               => call'.err = "NotReferenced" /\ u' = u ]_vars

\* C38 witness: a peer that held two references gave one back and is still
\* tracked.
C38_Witness ==
    /\ InCall
    /\ call.method = "Unref"
    /\ call.status = "replied"
    /\ call.sender.name = ":1.1"
    /\ pre.u.bus_track.names = <<":1.1", ":1.1">>
    /\ u.bus_track = [allocated |-> TRUE, names |-> <<":1.1">>]

\* An Unref is handed to its handler; other peers hold references on the unit
\* and the sender holds none.
UnrefByStranger ==
    /\ call.method = "Unref"
    /\ call'.dispatches = call.dispatches + 1
    /\ u.bus_track.allocated
    /\ u.bus_track.names # <<>>
    /\ \A i \in DOMAIN u.bus_track.names : u.bus_track.names[i] # call.sender.name

\* C22 as stated: Unref by a peer holding no reference, on a unit that other
\* peers reference, fails with an error of the peer-watch object that is not
\* the NotReferenced error.
C22_StrangerErrorIsDistinct ==
    [][ UnrefByStranger => call'.r < 0 /\ call'.err # "NotReferenced" ]_vars

\* C22 amended: such an Unref fails, is not answered and changes nothing; the
\* error of the peer-watch object is passed on as it is, except EUNATCH, which
\* is answered with NotReferenced as on a unit without peer-watch object.
C22_StrangerErrorPassedOn ==
    [][ UnrefByStranger
            => /\ call'.r < 0
               /\ call'.replies = <<>>
               /\ u' = u
               /\ call'.err = IF "sd_bus_track_remove_sender" \in call.faults
                               THEN "Errno" ELSE "NotReferenced" ]_vars

\* C22 witness: peer :1.1 sent Unref for a unit referenced by peer :1.7 only
\* and was refused.
C22_Witness ==
    /\ InCall
    /\ call.method = "Unref"
    /\ call.dispatches = 1
    /\ call.sender.name = ":1.1"
    /\ pre.u.bus_track = [allocated |-> TRUE, names |-> <<":1.7">>]
    /\ call.r < 0

\* C23: a lifecycle request whose mode is no job mode, once handed to its
\* handler, has failed: with InvalidArgs when it passed the MAC access check
\* (with the error of that check otherwise); no authorization was asked for,
\* no job was submitted and no reply was sent.
C23_BadModeRejected ==
    (/\ InCall
     /\ call.method \in StartMethods
     /\ call.dispatches >= 1
     /\ job_mode_from_string(call.smode) = "_INVALID")
        => /\ call.status = "error"
           /\ call.dispatches = 1
           /\ call.err = IF "mac_selinux_unit_access_check" \in call.faults
                          THEN "AccessDenied" ELSE "InvalidArgs"
           /\ call.auth = "unasked"
           /\ call.verify = "unreached"
           /\ jobs = <<>>
           /\ call.replies = <<>>

\* C23 witness: a ReloadOrRestart with mode "bogus" from an unprivileged peer
\* was refused with InvalidArgs.
C23_Witness ==
    /\ InCall
    /\ call.method = "ReloadOrRestart"
    /\ call.smode = "bogus"
    /\ ~call.sender.privileged
    /\ call.err = "InvalidArgs"

\* The request has been authorized and has reached the job dispatcher's guards.
Authorized == InCall /\ call.method \in StartMethods /\ call.verify = "authorized"

RefusesManual == u.refuse_manual_start \/ u.refuse_manual_stop

ManualRefused(type) ==
    \/ type = "start" /\ u.refuse_manual_start
    \/ type = "stop" /\ u.refuse_manual_stop
    \/ type \in {"restart", "try-restart"} /\ RefusesManual

\* A stop of a unit that is not there and not running.
StopOnNonexistent(type) ==
    /\ type = "stop"
    /\ u.load_state \in {"not-found", "error"}
    /\ unit_active_state(u) = "inactive"

\* An authorized request without reload_if_possible.
AuthorizedPlain == Authorized /\ ~MethodReloadIfPossible(call.method)

RejectedOnlyByDependency == call.err = "OnlyByDependency" /\ jobs = <<>>

\* C25 as stated: without reload_if_possible an authorized request is rejected
\* with OnlyByDependency, submitting no job, exactly when it is a start and
\* refuse-manual-start is set, a stop and refuse-manual-stop is set, or a
\* restart or try-restart and either flag is set.
C25_RefusedExactlyByFlags ==
    AuthorizedPlain => (RejectedOnlyByDependency <=> ManualRefused(MethodJobType(call.method)))

\* C25 amended: the same, except that a stop of a unit whose load state is
\* not-found or error and that is inactive is rejected with NoSuchUnit before
\* the flags are looked at; a reload is never rejected because of the flags.
C25_RefusedByFlagsAfterNoSuchUnit ==
    AuthorizedPlain
        => /\ RejectedOnlyByDependency
                <=> /\ ManualRefused(MethodJobType(call.method))
                    /\ ~StopOnNonexistent(MethodJobType(call.method))
           /\ call.err = "OnlyByDependency" => jobs = <<>> /\ call.replies = <<>>
           /\ call.method = "Reload" => call.err # "OnlyByDependency"

\* C25 witness: an authorized TryRestart on a unit that refuses manual stop
\* only was rejected with OnlyByDependency.
C25_Witness ==
    /\ AuthorizedPlain
    /\ call.method = "TryRestart"
    /\ u.refuse_manual_stop
    /\ ~u.refuse_manual_start
    /\ RejectedOnlyByDependency

\* C26: an authorized stop is rejected with NoSuchUnit, and submits no job,
\* exactly when the load state of the unit is not-found or error and the unit
\* is inactive; no other authorized lifecycle request is rejected that way.
C26_StopOnNonexistent ==
    Authorized
        => /\ call.err = "NoSuchUnit" <=> StopOnNonexistent(MethodJobType(call.method))
           /\ call.err = "NoSuchUnit" => jobs = <<>> /\ call.replies = <<>>

\* C26 witness: an authorized Stop of an inactive unit in load state error
\* was rejected with NoSuchUnit.
C26_Witness ==
    /\ Authorized
    /\ call.method = "Stop"
    /\ u.load_state = "error"
    /\ unit_active_state(u) = "inactive"
    /\ call.err = "NoSuchUnit"
    /\ jobs = <<>>

\* C27: the job submitted for a lifecycle request has type reload-or-start for
\* ReloadOrRestart and try-reload for ReloadOrTryRestart when the unit supports
\* reload, and in every other case the type the method asks for: start, stop,
\* reload, restart or try-restart.
C27_SubmittedJobType ==
    (InCall /\ call.method \in StartMethods /\ jobs # <<>>)
        => jobs[1].type =
              CASE call.method = "ReloadOrRestart" /\ unit_can_reload(u) -> "reload-or-start"
                [] call.method = "ReloadOrTryRestart" /\ unit_can_reload(u) -> "try-reload"
                [] call.method \in {"Restart", "ReloadOrRestart"} -> "restart"
                [] call.method \in {"TryRestart", "ReloadOrTryRestart"} -> "try-restart"
                [] call.method = "Start" -> "start"
                [] call.method = "Stop" -> "stop"
                [] call.method = "Reload" -> "reload"

\* C27 witness: a ReloadOrRestart on a unit that cannot reload submitted a
\* restart job.
C27_Witness ==
    /\ InCall
    /\ call.method = "ReloadOrRestart"
    /\ ~unit_can_reload(u)
    /\ jobs # <<>>
    /\ jobs[1].type = "restart"

\* C36 as stated: a lifecycle request that was answered with an error has left
\* no job with the scheduler, also when the error is that of registering the
\* calling peer as watcher of the new job.
C36_ErrorLeavesNoJob ==
    (InCall /\ call.method \in StartMethods /\ call.status = "error") => jobs = <<>>

\* The arguments of the Kill are well-formed.
KillArgsValid ==
    /\ call.swho \in {"", "all", "main", "control"}
    /\ call.signo >= 1
    /\ call.signo <= 64

\* C28: a Kill handed to its handler signals the unit only with well-formed
\* arguments, once, with the signal asked for and with "all" for an empty who;
\* with a who that is neither empty nor all, main or control, or a signal
\* number out of range, it fails with InvalidArgs (with the error of the MAC
\* access check if that fails), asks for no authorization and signals nothing.
C28_KillValidatesArguments ==
    (InCall /\ call.method = "Kill" /\ call.dispatches >= 1)
        => /\ kills # <<>>
                => /\ KillArgsValid
                   /\ kills = << [who |-> IF call.swho = "" THEN "all" ELSE call.swho,
                                  signo |-> call.signo] >>
           /\ call.status = "replied" => kills # <<>>
           /\ ~KillArgsValid
                => /\ call.status = "error"
                   /\ call.err = IF "mac_selinux_unit_access_check" \in call.faults
                                  THEN "AccessDenied" ELSE "InvalidArgs"
                   /\ call.auth = "unasked"
                   /\ call.verify = "unreached"
                   /\ kills = <<>>
                   /\ call.replies = <<>>

\* C28 witness: a Kill with an empty who and signal 15 was answered after the
\* unit was signalled with who "all".
C28_Witness ==
    /\ InCall
    /\ call.method = "Kill"
    /\ call.swho = ""
    /\ call.status = "replied"
    /\ kills = << [who |-> "all", signo |-> 15] >>

\* The text of the error the call failed with, when a handler of this file
\* raised it.
ErrorText == sd_bus_error_setf(call, call.err, u)

RaisedHere == InCall /\ call.status = "error" /\ ErrorText # <<>>

Carries(text, value) == \E i \in DOMAIN text : text[i] = value

C4_OneJobPerRequest ==
    (InCall /\ call.method \in StartMethods)
        => /\ Len(jobs) <= 1
           /\ call.status \in {"queued", "pending"} => Len(jobs) = 0
           /\ call.status = "replied" => Len(jobs) = 1

\* C4 witness: a start request was handed over twice while pending, then
\* granted, handed over again and answered, with one job queued.
C4_Witness ==
    /\ InCall
    /\ call.method \in StartMethods
    /\ call.auth = "granted"
    /\ call.dispatches = 3
    /\ call.status = "replied"
    /\ Len(jobs) = 1

(***************************************************************************)
(* Conditions and Asserts written through SetProperties (SpecProps).       *)
(***************************************************************************)
\* The call was made with a write mode and succeeded.
Committed == SetDone /\ call.flags # {} /\ call.r >= 0

ListProperties == {"Conditions", "Asserts"}

ListField(property) == IF property = "Asserts" THEN "asserts" ELSE "conditions"

\* The positions of the batch that name the property.
EntriesNamed(property) ==
    {i \in DOMAIN call.entries : EntryTable[call.entries[i]].name = property}

LastNamed(property) ==
    CHOOSE i \in EntriesNamed(property) : \A j \in EntriesNamed(property) : j <= i

\* The tuples of entry e as the property reads a condition made from them.
SuppliedTuples(e) ==
    [i \in 1..Len(e.v) |->
        [type |-> e.v[i].type, trigger |-> e.v[i].trigger, negate |-> e.v[i].negate,
         param |-> IF e.v[i].type \in {"ConditionNull", "AssertNull"} THEN <<>>
                   ELSE e.v[i].param,
         state |-> 0]]

Reverse(s) == [i \in 1..Len(s) |-> s[Len(s) + 1 - i]]

Range(s) == {s[i] : i \in DOMAIN s}

\* The property as read after the call and as it was before the call.
ReadNow(property) == property_get_conditions(u[ListField(property)], property)
ReadBefore(property) == property_get_conditions(pre.u[ListField(property)], property)

RECURSIVE SuppliedCount(_, _)
SuppliedCount(property, i) ==
    IF i > Len(call.entries) THEN 0
    ELSE (IF EntryTable[call.entries[i]].name = property
          THEN Len(EntryTable[call.entries[i]].v) ELSE 0) + SuppliedCount(property, i + 1)

\* C16 as stated: a committed Conditions (Asserts) entry with a non-empty array
\* replaces the list: afterwards the list holds exactly the tuples of that
\* entry and nothing that was in the list before.
C16_PreviousListDiscarded ==
    Committed
        => \A property \in ListProperties :
              (/\ EntriesNamed(property) # {}
               /\ EntryTable[call.entries[LastNamed(property)]].v # <<>>)
                 => /\ Range(ReadNow(property))
                          = Range(SuppliedTuples(EntryTable[call.entries[LastNamed(property)]]))
                    /\ Len(ReadNow(property))
                          = Len(EntryTable[call.entries[LastNamed(property)]].v)

\* C16 amended: a committed Conditions (Asserts) entry with a non-empty array
\* adds its tuples to the list and keeps what was there: after a batch whose
\* entries for the property are all non-empty the list ends with the list as
\* it was before the call, is longer by the number of tuples supplied, and
\* holds every supplied tuple.
C16_PreviousListKept ==
    Committed
        => \A property \in ListProperties :
              (/\ EntriesNamed(property) # {}
               /\ \A i \in EntriesNamed(property) : EntryTable[call.entries[i]].v # <<>>)
                 => /\ Len(ReadNow(property))
                          = Len(ReadBefore(property)) + SuppliedCount(property, 1)
                    /\ SubSeq(ReadNow(property), SuppliedCount(property, 1) + 1,
                              Len(ReadNow(property))) = ReadBefore(property)
                    /\ \A i \in EntriesNamed(property) :
                          Range(SuppliedTuples(EntryTable[call.entries[i]]))
                             \subseteq Range(ReadNow(property))

\* C16 witness: a unit that had two conditions was given one more by a committed
\* call and now has three.
C16_Witness ==
    /\ Committed
    /\ Len(pre.u.conditions) = 2
    /\ call.entries = <<8>>
    /\ Len(u.conditions) = 3
    /\ u.conditions[1].type = "Null"

\* C17 as stated: after a committed Conditions (Asserts) write the property
\* shows the tuples of the entry in the order in which they were supplied.
C17_ReadInSuppliedOrder ==
    Committed
        => \A property \in ListProperties :
              (/\ EntriesNamed(property) # {}
               /\ EntryTable[call.entries[LastNamed(property)]].v # <<>>)
                 => SubSeq(ReadNow(property), 1,
                           Len(EntryTable[call.entries[LastNamed(property)]].v))
                       = SuppliedTuples(EntryTable[call.entries[LastNamed(property)]])

\* C17 amended: after a committed Conditions (Asserts) write the property
\* shows the tuples of the entry first and in the reverse of the order in
\* which they were supplied.
C17_ReadInReverseOrder ==
    Committed
        => \A property \in ListProperties :
              (/\ EntriesNamed(property) # {}
               /\ EntryTable[call.entries[LastNamed(property)]].v # <<>>)
                 => SubSeq(ReadNow(property), 1,
                           Len(EntryTable[call.entries[LastNamed(property)]].v))
                       = Reverse(SuppliedTuples(EntryTable[call.entries[LastNamed(property)]]))

\* C17 witness: a fresh transient unit was given ConditionPathExists and then
\* ConditionKernelCommandLine in one array and shows them the other way round.
C17_Witness ==
    /\ Committed
    /\ pre.u.conditions = <<>>
    /\ call.entries = <<6>>
    /\ Len(ReadNow("Conditions")) = 2
    /\ ReadNow("Conditions")[1].type = "ConditionKernelCommandLine"
    /\ ReadNow("Conditions")[2].type = "ConditionPathExists"

\* C18: a committed empty array clears the list, also one that was not empty,
\* and a committed batch without an entry for the property leaves the list as
\* it was; for Conditions and for Asserts.
C18_EmptyClearsAbsentKeeps ==
    Committed
        => \A property \in ListProperties :
              /\ (/\ EntriesNamed(property) # {}
                  /\ EntryTable[call.entries[LastNamed(property)]].v = <<>>)
                    => u[ListField(property)] = <<>>
              /\ EntriesNamed(property) = {}
                    => u[ListField(property)] = pre.u[ListField(property)]

\* C18 witness: a unit with two conditions and one assert was sent an empty
\* Conditions array and a description; the conditions are gone, the assert is
\* still there.
C18_Witness ==
    /\ Committed
    /\ Len(pre.u.conditions) = 2 /\ Len(pre.u.asserts) = 1
    /\ call.entries = <<7, 1>>
    /\ u.conditions = <<>>
    /\ u.asserts = pre.u.asserts
    /\ call.r = 2

\* Entry e has a tuple the handler must refuse.
HasBadTuple(e) ==
    /\ e.name \in ListProperties
    /\ \E i \in DOMAIN e.v :
          \/ e.v[i].type \notin (IF e.name = "Conditions"
                                 THEN {"ConditionPathExists", "ConditionKernelCommandLine",
                                       "ConditionNull"}
                                 ELSE {"AssertPathExists", "AssertKernelCommandLine",
                                       "AssertNull"})
          \/ /\ e.v[i].type \notin {"ConditionNull", "AssertNull"}
             /\ \/ e.v[i].param = <<>>
                \/ /\ e.v[i].type \in {"ConditionPathExists", "AssertPathExists"}
                   /\ (e.v[i].param = <<>> \/ e.v[i].param[1] # "/")

\* C19: when the handler of a transient unit under construction comes to a
\* Conditions (Asserts) array with a tuple of unknown type, of a non-null type without parameter, or of a path type with
\* a relative path, the call fails with InvalidArgs in the first pass and the
\* unit is as before; a null condition is accepted with any parameter and
\* stored without it.
C19_BadTupleRejected ==
    /\ (SetDone /\ pre.u.transient /\ pre.u.load_state = "stub"
          /\ \E k \in DOMAIN call.entries :
                /\ HasBadTuple(EntryTable[call.entries[k]])
                /\ \E j \in DOMAIN call.trace : call.trace[j].entry = k)
          => /\ call.r < 0
             /\ call.err = "InvalidArgs"
             /\ \A j \in DOMAIN call.trace : ~call.trace[j].for_real
             /\ u = pre.u
    /\ (Committed /\ call.entries = <<8>> /\ pre.u.transient /\ pre.u.load_state = "stub"
          /\ pre.u.type = "service")
          => /\ call.r = 1
             /\ u.conditions[1].type = "Null"
             /\ u.conditions[1].parameter = <<>>

\* C19 witness: after a valid description, an array whose second tuple has an
\* unknown type name was refused with InvalidArgs.
C19_Witness ==
    /\ SetDone
    /\ call.entries = <<1, 9>>
    /\ call.flags = {"RUNTIME"}
    /\ Len(call.trace) = 2
    /\ call.err = "InvalidArgs"
    /\ u = pre.u

(***************************************************************************)
(* Which handler takes an entry of SetProperties (SpecProps).               *)
(***************************************************************************)
\* The unit the call came for was a transient unit under construction.
WasTransientStub == pre.u.transient /\ pre.u.load_state = "stub"

\* The properties only the transient handler knows, and the fields of the
\* unit they are stored in.
TransientOnlyNames ==
    {"RefuseManualStart", "RefuseManualStop", "JobTimeoutUSec", "JobRunningTimeoutUSec",
     "Conditions", "Asserts", "Documentation", "Slice", "RequiresMountsFor", "Wants",
     "AddRef"}

TransientOnlyFields ==
    {"refuse_manual_start", "refuse_manual_stop", "job_timeout", "job_running_timeout",
     "job_running_timeout_set", "conditions", "asserts", "documentation", "slice",
     "requires_mounts_for", "dependencies", "bus_track_add"}

\* The handler was called for the entry at position k.
Reached(k) == \E j \in DOMAIN call.trace : call.trace[j].entry = k

\* The call failed in the first pass at the entry at position k with
\* PropertyReadOnly, and the unit is as before.
RefusedReadOnlyAt(k) ==
    /\ call.r < 0
    /\ call.err = "PropertyReadOnly"
    /\ call.trace[Len(call.trace)] = [entry |-> k, for_real |-> FALSE]
    /\ \A j \in DOMAIN call.trace : ~call.trace[j].for_real
    /\ u = pre.u

\* C29: on a unit that is not a transient unit in load state stub no call
\* changes a field the transient-only properties are stored in; a batch with
\* a transient-only property fails and changes neither the unit nor the
\* manager's units, and when the loop comes to that entry it fails there, in
\* the first pass, with PropertyReadOnly.
C29_TransientOnlyWhileStub ==
    (SetDone /\ ~WasTransientStub)
        => /\ \A f \in TransientOnlyFields : u[f] = pre.u[f]
           /\ \A k \in DOMAIN call.entries :
                 EntryTable[call.entries[k]].name \in TransientOnlyNames
                    => /\ call.r < 0
                       /\ u = pre.u
                       /\ units = pre.units
                       /\ Reached(k) => RefusedReadOnlyAt(k)

\* C29 witness: on a loaded unit a batch of a description and
\* RefuseManualStart was refused at its second entry with PropertyReadOnly.
C29_Witness ==
    /\ SetDone
    /\ pre.u.load_state = "loaded"
    /\ call.entries = <<1, 3>>
    /\ call.flags = {"PERSISTENT"}
    /\ RefusedReadOnlyAt(2)

\* No handler knows the name of entry e on the unit the call came for.
NoHandlerMatches(e) ==
    /\ e.name # "SubProperty"
    /\ e.name # "Description"
    /\ WasTransientStub => e.name \notin TransientOnlyNames

\* C30: a batch with an entry whose name no handler knows fails without a
\* second pass and leaves the unit as it was, valid entries before that entry
\* included; when the loop comes to the entry the call fails there with
\* PropertyReadOnly.
C30_UnknownNameAbortsBatch ==
    SetDone
        => \A k \in DOMAIN call.entries :
              NoHandlerMatches(EntryTable[call.entries[k]])
                 => /\ call.r < 0
                    /\ \A j \in DOMAIN call.trace : ~call.trace[j].for_real
                    /\ u = pre.u
                    /\ Reached(k) => RefusedReadOnlyAt(k)

\* C30 witness: on a transient unit under construction a batch of a valid
\* description and a property of unknown name was refused at its second
\* entry, the description not written.
C30_Witness ==
    /\ SetDone
    /\ WasTransientStub
    /\ call.entries = <<1, 24>>
    /\ call.flags = {"RUNTIME"}
    /\ RefusedReadOnlyAt(2)
    /\ u.description = pre.u.description

\* C31: a successful call returns the number of entries of the batch when it
\* was made with a write mode, and 0 when it was made without one; a call
\* without write mode makes one pass and leaves the unit and the manager's
\* units as they were.
C31_CountOfCommittedEntries ==
    (SetDone /\ call.r >= 0)
        => /\ call.r = IF call.flags = {} THEN 0 ELSE Len(call.entries)
           /\ call.flags = {}
                => /\ Len(call.trace) = Len(call.entries)
                   /\ \A j \in DOMAIN call.trace : ~call.trace[j].for_real
                   /\ u = pre.u
                   /\ units = pre.units

\* The call failed in its second pass, at the entry at position k.
FailedInCommitAt(k) ==
    /\ SetDone
    /\ call.r < 0
    /\ call.trace # <<>>
    /\ call.trace[Len(call.trace)] = [entry |-> k, for_real |-> TRUE]

\* What a call with the first n entries of the batch makes of the state the
\* call began in.
PrefixCall(n) ==
    bus_unit_set_properties(pre, [entries |-> SubSeq(call.entries, 1, n),
                                  flags |-> call.flags, commit |-> FALSE,
                                  faults |-> call.faults])

\* C32: when the handler of entry k fails in the second pass, the call returns
\* its error, and what the entries before k wrote in that pass stays: the unit
\* is the unit a call with those entries alone leaves behind, and the units
\* such a call makes known to the manager are known to it.
C32_CommitNotRolledBack ==
    \A k \in 1..MaxBatch :
       FailedInCommitAt(k)
          => /\ call.err # ""
             /\ PrefixCall(k - 1).r = k - 1
             /\ u = PrefixCall(k - 1).st.u
             /\ PrefixCall(k - 1).st.units \subseteq units

\* C32 witness: a batch of a Wants list and a slice passed the first pass; in
\* the second the slice could not be set, and the dependencies and the units
\* they name are there.
C32_Witness ==
    /\ FailedInCommitAt(2)
    /\ call.entries = <<20, 15>>
    /\ u.dependencies # pre.u.dependencies
    /\ <<"b", ".service">> \in units
    /\ <<"b", ".service">> \notin pre.units

\* C34: on a transient unit under construction a batch of valid entries with
\* JobTimeoutUSec = 5 among them (alone, after a description, or before or
\* after JobRunningTimeoutUSec = 9), written with a write mode, is accepted:
\* job_timeout is 5, and job_running_timeout is 5 too unless
\* JobRunningTimeoutUSec was written, which makes it 9.
C34_JobTimeoutAccepted ==
    (/\ SetDone
     /\ WasTransientStub
     /\ pre.u.type = "service"
     /\ call.flags # {}
     /\ call.entries \in {<<4>>, <<1, 4>>, <<5, 4>>, <<4, 5>>})
        => /\ call.r = Len(call.entries)
           /\ u.job_timeout = 5
           /\ u.job_running_timeout = IF \E k \in DOMAIN call.entries : call.entries[k] = 5
                                       THEN 9 ELSE 5


\* The handler calls of the first pass, and those of the second.
DryCalls == SelectSeq(call.trace, LAMBDA t : ~t.for_real)

RealCalls == SelectSeq(call.trace, LAMBDA t : t.for_real)

\* The calls are made for the entries at positions 1, 2, ... in turn.
InBatchOrder(calls) == \A j \in DOMAIN calls : calls[j].entry = j

\* How often the subtype's commit hook ran in the call.
CommitRuns == u.sub_commits - pre.u.sub_commits

\* What C37 says of both a call that succeeds and one that fails: at most two
\* passes, the first without mutation and complete before the second begins,
\* both in batch order, and the commit hook run once by a call that asked for
\* it and committed at least one entry, and not at all by any other.
TwoPasses ==
    /\ Len(call.trace) <= 2 * Len(call.entries)
    /\ call.trace = DryCalls \o RealCalls
    /\ InBatchOrder(DryCalls)
    /\ InBatchOrder(RealCalls)
    /\ RealCalls # <<>> => Len(DryCalls) = Len(call.entries)
    /\ CommitRuns = IF call.commit /\ call.r > 0 THEN 1 ELSE 0
    /\ call.r > 0 => Len(RealCalls) = Len(call.entries)

\* C37 as stated: a call with a write mode makes at most two passes, and once
\* every entry has passed the first, the handler of each entry is called
\* exactly once with mutation enabled.
C37_EachEntryAppliedOnce ==
    (SetDone /\ call.flags # {})
        => /\ TwoPasses
           /\ RealCalls # <<>> => Len(RealCalls) = Len(call.entries)

\* C37 amended: the same, except that the second pass ends at the first entry
\* whose handler fails: the entries up to it were applied once each, those
\* after it not at all, and the commit hook does not run; a call that succeeds
\* has applied every entry once.
C37_EachEntryAppliedAtMostOnce ==
    (SetDone /\ call.flags # {})
        => /\ TwoPasses
           /\ Len(RealCalls) <= Len(call.entries)
           /\ call.r >= 0 => Len(RealCalls) = Len(call.entries)
           /\ (RealCalls # <<>> /\ Len(RealCalls) < Len(call.entries)) => call.r < 0
           /\ call.r < 0 => CommitRuns = 0

\* C37 witness: a batch of two entries written with commit went through both
\* passes and the commit hook ran once.
C37_Witness ==
    /\ SetDone
    /\ call.flags # {}
    /\ call.commit
    /\ Len(call.entries) = 2
    /\ call.r = 2
    /\ Len(DryCalls) = 2
    /\ Len(RealCalls) = 2
    /\ CommitRuns = 1

====
